---------------------------- MODULE Spec2Model ----------------------------
(***************************************************************************)
(* A model of libhal-expander's CANUSB driver (src/src/canusb.cpp):        *)
(*   - the frame codec (can_message_to_command_buffer,                     *)
(*     string_to_can_message, baud_rate_to_command_char),                  *)
(*   - the adapter state shared by the two facets and the acquisition      *)
(*     functions,                                                          *)
(*   - the bus manager and the transceiver operations,                     *)
(*   - the incremental parser process_incoming_serial_data over the        *)
(*     serial port's circular receive buffer.                              *)
(*                                                                         *)
(* Bytes are the integers 0..255, byte strings are sequences of bytes      *)
(* (1-based here, 0-based in the source).                                  *)
(***************************************************************************)
EXTENDS Integers, Sequences, FiniteSets

VARIABLES
  \* ---- codec harness (SpecCodec, SpecDecode)
  codec_pc,                \* "idle" | "message" | "encoded" | "bytes" | "decoded"
  p_message,               \* the argument of can_message_to_command_buffer
  p_command,               \* the argument of string_to_can_message
  parsed_message,          \* the std::optional<can_message> it returned
  \* ---- canusb (include/libhal-expander/canusb.hpp:119-132)
  m_bus_manager_acquired,
  m_transceiver_acquired,
  m_is_open,
  m_current_baud_rate,
  \* ---- the facets handed out (strong_ptr to canusb_bus_manager / _transceiver)
  bus_manager,             \* "none" | "live" | "destroyed"
  transceiver,             \* "none" | "live" | "destroyed"
  m_bus_off_handler,       \* canusb_bus_manager::m_bus_off_handler
  \* ---- hal::v5::serial, the transport
  serial_tx,               \* the command byte of every write() so far, in order
  serial_rx,               \* its circular receive buffer, [0..M-1 -> byte]
  serial_cursor,           \* its receive_cursor()
  \* ---- canusb_transceiver (canusb.cpp:286-290)
  m_circular_buffer,       \* [data: [0..N-1 -> can_message], write_index, capacity]
  m_last_serial_cursor,
  m_parse_buffer,          \* [0..31 -> byte]
  m_parse_buffer_pos,
  \* ---- the last step taken, and history kept for the properties
  step,                    \* [op, param, status, result, written] of the last step
                           \* of the application's thread
  bm_acquire_called,       \* acquire_can_bus_manager has been called
  tc_acquire_called,       \* acquire_can_transceiver has been called
  handler_invocations,     \* times a stored bus-off handler was invoked
  pending,                 \* bytes the transport published since a call last loaded
                           \* its cursor
  deliveries,              \* writes to the port's input so far
  stream,                  \* every byte the transport published so far, in order
  consumed,                \* every byte the parser passes have read so far, in order
  \* ---- the input of the port (mac.cpp:79): written and not yet read by getchar
  stdin,
  \* ---- the producer thread round its loop (mac.cpp:76-92)
  producer,                \* [pc, ch, current_cursor]
  \* ---- a call of process_incoming_serial_data in progress (canusb.cpp:423-465)
  pass,                    \* [pc, op, caller, current_cursor, bytes_received, i,
                           \*  before, counted, read, pushed]
  \* ---- the polling loop of the demo (demos/applications/canusb.cpp:118-145)
  application              \* [pc, previous_cursor, messages]

codecVars == <<codec_pc, p_message, p_command, parsed_message>>
adapterVars == <<m_bus_manager_acquired, m_transceiver_acquired, m_is_open,
                 m_current_baud_rate>>
facetVars == <<bus_manager, transceiver, m_bus_off_handler>>
serialVars == <<serial_tx, serial_rx, serial_cursor>>
parserVars == <<m_circular_buffer, m_last_serial_cursor, m_parse_buffer,
                m_parse_buffer_pos>>
historyVars == <<step, bm_acquire_called, tc_acquire_called, handler_invocations,
                 pending, deliveries, stream>>
applicationVars == <<application>>
producerVars == <<stdin, producer>>
vars == <<codecVars, adapterVars, facetVars, serialVars, parserVars, historyVars,
          pass, applicationVars, consumed, producerVars>>

(***************************************************************************)
(* Characters and sizes of the source.                                     *)
(***************************************************************************)
NUL == 0
CR == 13
Chr_0 == 48
Chr_O == 79
Chr_R == 82
Chr_S == 83
Chr_T == 84
Chr_r == 114
Chr_t == 116
CommandBufferSize == 28
ParseBufferSize == 32
PayloadSize == 8
MaxPayloadLength == 8
StdFormatSize == 6
ExtFormatSize == 11
StdIdLength == 3
ExtIdLength == 8
DefaultBaudRate == 125000

Byte == 0..255
Min(a, b) == IF a < b THEN a ELSE b
Max(a, b) == IF a > b THEN a ELSE b

\* hal::can_message; `hal::can_message message{}` is all zero.
can_message(id, extended, remote_request, length, payload) ==
  [id |-> id, extended |-> extended, remote_request |-> remote_request,
   length |-> length, payload |-> payload]
ZeroPayload == [i \in 1..PayloadSize |-> 0]
ZeroMessage == can_message(0, FALSE, FALSE, 0, ZeroPayload)

\* std::optional<hal::can_message>
nullopt == [has_value |-> FALSE, value |-> ZeroMessage]
some(m) == [has_value |-> TRUE, value |-> m]

(***************************************************************************)
(* printf's %0<w>X and snprintf into a buffer of a given size.             *)
(***************************************************************************)
UpperHexDigit(n) == IF n < 10 THEN 48 + n ELSE 55 + n

RECURSIVE HexDigits(_)
HexDigits(v) ==
  IF v < 16 THEN <<UpperHexDigit(v)>>
  ELSE Append(HexDigits(v \div 16), UpperHexDigit(v % 16))

\* "%0<width>X": at least `width` digits, zero-padded on the left, never cut.
FormatHex(v, width) ==
  LET digits == HexDigits(v)
      pad == Max(width - Len(digits), 0)
  IN [i \in 1..pad |-> Chr_0] \o digits

\* std::snprintf(buffer, size, ...): at most size-1 characters of the text,
\* then the terminating NUL. The result is the part of the buffer written.
snprintf(size, text) == SubSeq(text, 1, Min(Len(text), size - 1)) \o <<NUL>>

\* std::span(buffer).first(n)
first(buffer, n) == SubSeq(buffer, 1, n)

(***************************************************************************)
(* canusb_command_buffer (canusb.cpp:170-193): `data` holds 28 bytes, the  *)
(* model keeps the `size` bytes in use.                                    *)
(***************************************************************************)
push_back(buffer, p_byte) ==
  IF Len(buffer) < CommandBufferSize THEN Append(buffer, p_byte) ELSE buffer

RECURSIVE append(_, _)
append(buffer, p_str) ==
  IF p_str = <<>> THEN buffer
  ELSE append(push_back(buffer, Head(p_str)), Tail(p_str))

(***************************************************************************)
(* can_message_to_command_buffer (canusb.cpp:198-244).                     *)
(***************************************************************************)
\* lines 203-225: the command byte and the identifier. The extended branch
\* appends the whole 9-character id_buffer, the standard branch its first 3.
EncodeHeader(m) ==
  IF m.extended
  THEN append(push_back(<<>>, IF m.remote_request THEN Chr_R ELSE Chr_T),
              snprintf(9, FormatHex(m.id, 8)))
  ELSE append(push_back(<<>>, IF m.remote_request THEN Chr_r ELSE Chr_t),
              first(snprintf(4, FormatHex(m.id, 3)), 3))

\* lines 232-239: the payload loop, from byte i (0-based) on.
RECURSIVE EncodePayload(_, _, _)
EncodePayload(buffer, m, i) ==
  IF i >= m.length THEN buffer
  ELSE EncodePayload(
         append(buffer, first(snprintf(3, FormatHex(m.payload[i + 1], 2)), 2)),
         m, i + 1)

can_message_to_command_buffer(m) ==
  LET header == EncodeHeader(m)
      with_length == push_back(header, (Chr_0 + m.length) % 256)
      with_data == IF ~m.remote_request
                   THEN EncodePayload(with_length, m, 0)
                   ELSE with_length
  IN push_back(with_data, CR)

(***************************************************************************)
(* std::from_chars(first, last, value, 16) on an unsigned value: the       *)
(* longest prefix of hexadecimal digits (either case, no sign, no "0x") is *)
(* converted; no leading digit is std::errc::invalid_argument. The fields  *)
(* read here are at most 8 digits for a u32 and 2 digits for a byte, so    *)
(* result_out_of_range cannot occur.                                       *)
(***************************************************************************)
\* A slip: only the digits the encoder emits are taken as hex digits.
IsHexDigitUpperOnly(b) == b \in (48..57) \cup (65..70)

IsHexDigit(b) == b \in (48..57) \cup (65..70) \cup (97..102)
HexValue(b) == IF b <= 57 THEN b - 48 ELSE IF b <= 70 THEN b - 55 ELSE b - 87

RECURSIVE HexPrefixLength(_)
HexPrefixLength(s) ==
  IF s = <<>> \/ ~IsHexDigit(Head(s)) THEN 0 ELSE 1 + HexPrefixLength(Tail(s))

RECURSIVE HexNumber(_)
HexNumber(s) ==
  IF s = <<>> THEN 0
  ELSE 16 * HexNumber(SubSeq(s, 1, Len(s) - 1)) + HexValue(s[Len(s)])

from_chars(s) ==
  LET n == HexPrefixLength(s)
  IN IF n = 0 THEN [ec |-> "invalid_argument", value |-> 0]
     ELSE [ec |-> "ok", value |-> HexNumber(SubSeq(s, 1, n))]

(***************************************************************************)
(* string_to_can_message (canusb.cpp:74-157).                              *)
(***************************************************************************)
\* A slip: the length character is checked to be a decimal digit, not to be
\* at most 8.
LengthOutOfRangeDecimal(length_char) ==
  length_char - Chr_0 < 0 \/ length_char - Chr_0 > 9

\* line 128: `std::size_t payload_length = command_chars[0] - '0'`. The
\* difference is an int; a negative one converts to a size_t above 2^31
\* (whatever the signedness of char), so `payload_length > 8` is true of it.
LengthOutOfRange(length_char) ==
  length_char - Chr_0 < 0 \/ length_char - Chr_0 > MaxPayloadLength

\* lines 145-154: the payload loop from pair i (0-based) on; data is
\* command_chars after the length character. Yields the payload array, or
\* <<>> when a pair does not convert.
RECURSIVE ParsePayload(_, _, _, _)
ParsePayload(data, payload_length, i, payload) ==
  IF i >= payload_length THEN payload
  ELSE LET status == from_chars(SubSeq(data, 2 * i + 1, 2 * i + 2))
       IN IF status.ec # "ok" THEN <<>>
          ELSE ParsePayload(data, payload_length, i + 1,
                            [payload EXCEPT ![i + 1] = status.value])

\* lines 102-156, once the command byte has selected the format.
ParseFrame(p, extended, format_size, id_byte_length) ==
  IF Len(p) < format_size THEN nullopt
  ELSE
    LET command == p[1]
        remote_request == command \in {Chr_r, Chr_R}
        id_status == from_chars(SubSeq(p, 2, 1 + id_byte_length))
        length_char == p[2 + id_byte_length]
        payload_length == length_char - Chr_0
        data == SubSeq(p, 3 + id_byte_length, Len(p))
        expected_remaining == (payload_length * 2) + 1
        payload == ParsePayload(data, payload_length, 0, ZeroPayload)
    IN IF id_status.ec # "ok" THEN nullopt
       ELSE IF LengthOutOfRange(length_char) THEN nullopt
       ELSE IF Len(data) # expected_remaining THEN nullopt
       ELSE IF payload = <<>> THEN nullopt
       ELSE some(can_message(id_status.value, extended, remote_request,
                             payload_length, payload))

string_to_can_message(p) ==
  IF p = <<>> THEN nullopt
  ELSE IF p[1] \in {Chr_r, Chr_t}
       THEN ParseFrame(p, FALSE, StdFormatSize, StdIdLength)
  ELSE IF p[1] \in {Chr_R, Chr_T}
       THEN ParseFrame(p, TRUE, ExtFormatSize, ExtIdLength)
  ELSE nullopt

(***************************************************************************)
(* The state after canusb::create (canusb.hpp:122-132): nothing acquired,  *)
(* the bus closed, 125 kHz; the serial port has received and sent nothing. *)
(***************************************************************************)
\* Capacity of the serial port's circular receive buffer (its
\* receive_buffer().size()); the port belongs to the platform, which
\* chooses it (mac.cpp:222 takes 1024). TransportCapacity is a buffer that
\* the streams of SpecRx, SpecPull, SpecStream and SpecPoll overrun,
\* LargeTransportCapacity one that the stream of SpecFill does not.
TransportCapacity == 16
LargeTransportCapacity == 48

\* What a step records: the operation (op), its argument (param), how it
\* ended (status: "ok" or the exception thrown), the value returned (result),
\* and the bytes it wrote to the serial port (written, <<>> when none).
Step(op, arg, status, value, written) ==
  [op |-> op, param |-> arg, status |-> status, result |-> value, written |-> written]

NoRing == [data |-> <<>>, write_index |-> 0, capacity |-> 0]

\* No call of receive_buffer() or receive_cursor() is in progress. Every
\* operation of the two facets is called from the application's one
\* thread, so none of them starts while pass.pc is not "idle". Beside the
\* locals of process_incoming_serial_data a call in progress keeps, for the
\* properties: the parser's members as the call found them (before), the
\* bytes the transport had published since the call before loaded the
\* cursor (counted), the bytes read so far (read) and the messages pushed
\* so far (pushed).
NoParser == [parse_buffer |-> <<>>, parse_buffer_pos |-> 0, circular_buffer |-> NoRing]
NoPass == [pc |-> "idle", op |-> "none", caller |-> "none", current_cursor |-> 0,
           bytes_received |-> 0, i |-> 0,
           before |-> NoParser, counted |-> <<>>, read |-> <<>>, pushed |-> <<>>]

\* The demo has not reached its polling loop.
NotStarted == [pc |-> "receive_buffer", previous_cursor |-> 0, messages |-> <<>>]

\* The producer thread waits in getchar (mac.cpp:79).
NoByte == [pc |-> "getchar", ch |-> 0, current_cursor |-> 0]

InitDriverOn(receive_buffer_size) ==
  /\ m_bus_manager_acquired = FALSE
  /\ m_transceiver_acquired = FALSE
  /\ m_is_open = FALSE
  /\ m_current_baud_rate = DefaultBaudRate
  /\ bus_manager = "none"
  /\ transceiver = "none"
  /\ m_bus_off_handler = "nullopt"
  /\ serial_tx = <<>>
  /\ serial_rx = [i \in 0..(receive_buffer_size - 1) |-> 0]
  /\ serial_cursor = 0
  /\ m_circular_buffer = NoRing
  /\ m_last_serial_cursor = 0
  /\ m_parse_buffer = [i \in 0..(ParseBufferSize - 1) |-> 0]
  /\ m_parse_buffer_pos = 0
  /\ step = Step("create", 0, "ok", 0, <<>>)
  /\ bm_acquire_called = FALSE
  /\ tc_acquire_called = FALSE
  /\ handler_invocations = 0
  /\ pending = <<>>
  /\ deliveries = 0
  /\ stream = <<>>
  /\ consumed = <<>>
  /\ stdin = <<>>
  /\ producer = NoByte
  /\ pass = NoPass
  /\ application = NotStarted

InitDriver == InitDriverOn(TransportCapacity)

\* receive_buffer().size() of the serial port in use.
ReceiveBufferSize == Cardinality(DOMAIN serial_rx)

\* Everything of the canusb adapter and of the demo that polls it, the last
\* step apart.
canusbVars == <<adapterVars, facetVars, serialVars, parserVars, bm_acquire_called,
                tc_acquire_called, handler_invocations, pending, deliveries,
                stream, pass, applicationVars, consumed, producerVars>>

driverVars == <<adapterVars, facetVars, serialVars, parserVars, historyVars,
                pass, applicationVars, consumed, producerVars>>

(***************************************************************************)
(* The codec on its own: SpecCodec encodes a message and decodes the       *)
(* result, SpecDecode decodes a byte slice.                                *)
(***************************************************************************)
\* Identifiers are kept below 2^31, the width of the checker's integers.
StandardIds == {0, 1, \h123, \h7FF}
ExtendedIds == {0, \h123, \h12345678, \h1FFFFFFF}
Payloads == { <<\hAB, \hCD, \hEF, \h00, \h01, \h0F, \hF0, \hFF>>,
              <<\h12, \h34, \h56, \h78, \h9A, \hBC, \hDE, \h0A>>,
              ZeroPayload }

ValidMessage(m) ==
  /\ m.length \in 0..MaxPayloadLength
  /\ m.id \in (IF m.extended THEN 0..\h1FFFFFFF ELSE 0..\h7FF)

Messages ==
  { can_message(id, FALSE, rr, len, pl) :
      id \in StandardIds, rr \in BOOLEAN, len \in 0..MaxPayloadLength,
      pl \in Payloads }
  \cup
  { can_message(id, TRUE, rr, len, pl) :
      id \in ExtendedIds, rr \in BOOLEAN, len \in 0..MaxPayloadLength,
      pl \in Payloads }

\* ---- byte slices for the decoder
\* The wire format of section 6 of the protocol: command, identifier digits,
\* length digit, payload digits, terminator.
RECURSIVE PayloadDigits(_, _)
PayloadDigits(payload, n) ==
  IF n = 0 THEN <<>>
  ELSE PayloadDigits(payload, n - 1) \o FormatHex(payload[n], 2)

WireFrame(command, id_digits, len, digits) ==
  <<command>> \o id_digits \o <<Chr_0 + len>> \o digits \o <<CR>>

FrameLengths == {0, 1, 2, 8}
FramePayloads == { <<\hAB, \hCD, \hEF, \h00, \h01, \h0F, \hF0, \hFF>> }

\* The payload digit strings tried for a frame of length len: those of its
\* length, and none.
FrameDigits(len) == { <<>> } \cup { PayloadDigits(pl, len) : pl \in FramePayloads }

BaseFramesOfLength(len) ==
  { WireFrame(c, FormatHex(id, StdIdLength), len, d) :
      c \in {Chr_t, Chr_r}, id \in {1, \h7AB}, d \in FrameDigits(len) }
  \cup
  { WireFrame(c, FormatHex(id, ExtIdLength), len, d) :
      c \in {Chr_T, Chr_R}, id \in {\h123, \h1ABCDEF0}, d \in FrameDigits(len) }

BaseFrames == UNION { BaseFramesOfLength(len) : len \in FrameLengths }

\* Bytes put in place of one byte of a frame: G g space NUL : / - + x @ `
\* CR 9 0 and a byte above 127.
MutationBytes == {71, 103, 32, 0, 58, 47, 45, 43, 120, 64, 96, 13, 57, 48, 176}

LowerCase(b) == IF b \in 65..90 THEN b + 32 ELSE b

Variants(s) ==
  {s}
  \cup { [s EXCEPT ![i] = b] : i \in 1..Len(s), b \in MutationBytes }
  \cup { [s EXCEPT ![i] = LowerCase(s[i])] : i \in 2..Len(s) }
  \cup { SubSeq(s, 1, n) : n \in 0..Len(s) }
  \cup { Append(s, b) : b \in {CR, Chr_0} }

\* Every slice of at most MaxShortLength bytes over a small alphabet:
\* t T r 0 A G CR
MaxShortLength == 3
ShortAlphabet == {116, 84, 114, 48, 65, 71, 13}
ShortSlices ==
  UNION { [1..n -> ShortAlphabet] : n \in 0..MaxShortLength }

\* An 8-digit identifier of 2^31 or more is outside the checker's integers.
TopDigitFits(s) ==
  ~(Len(s) >= 2 /\ s[1] \in {Chr_T, Chr_R} /\ IsHexDigit(s[2]) /\ HexValue(s[2]) > 7)

DecodeInputs ==
  { s \in (UNION { Variants(f) : f \in BaseFrames })
          \cup { can_message_to_command_buffer(m) : m \in Messages }
          \cup ShortSlices : TopDigitFits(s) }

InitCodecIdle ==
  /\ codec_pc = "idle"
  /\ p_message = ZeroMessage
  /\ p_command = <<>>
  /\ parsed_message = nullopt

InitCodec ==
  /\ InitDriver
  /\ codec_pc = "message"
  /\ p_message \in Messages
  /\ p_command = <<>>
  /\ parsed_message = nullopt

InitDecode ==
  /\ InitDriver
  /\ codec_pc = "bytes"
  /\ p_message = ZeroMessage
  /\ p_command \in DecodeInputs
  /\ parsed_message = nullopt

\* can_message_to_command_buffer(p_message).span()
Encode ==
  /\ codec_pc = "message"
  /\ p_command' = can_message_to_command_buffer(p_message)
  /\ codec_pc' = "encoded"
  /\ UNCHANGED <<p_message, parsed_message, driverVars>>

\* string_to_can_message(p_command)
Decode ==
  /\ codec_pc \in {"encoded", "bytes"}
  /\ parsed_message' = string_to_can_message(p_command)
  /\ codec_pc' = "decoded"
  /\ UNCHANGED <<p_message, p_command, driverVars>>

NextCodec == Encode \/ Decode
SpecCodec == InitCodec /\ [][NextCodec]_vars

NextDecode == Decode
SpecDecode == InitDecode /\ [][NextDecode]_vars

(***************************************************************************)
(* Properties of the codec.                                                *)
(***************************************************************************)
SameMessage(a, b) ==
  /\ a.id = b.id
  /\ a.extended = b.extended
  /\ a.remote_request = b.remote_request
  /\ a.length = b.length
  /\ \A i \in 1..b.length : a.payload[i] = b.payload[i]

\* C1: round trip. For every valid message m (length 0..8, id in range for
\* its extended flag, either remote_request value), decoding the bytes that
\* encode(m) produced succeeds and yields m again in id, extended,
\* remote_request, length and the first `length` payload bytes.
C1_RoundTrip ==
  (codec_pc = "decoded" /\ ValidMessage(p_message)) =>
    /\ parsed_message.has_value
    /\ SameMessage(parsed_message.value, p_message)

\* The layout the protocol documents for a message: command byte, 8 or 3
\* upper-case hex digits, the length digit, the payload pairs of a data
\* frame, carriage return.
CommandByte(m) ==
  IF m.extended THEN (IF m.remote_request THEN Chr_R ELSE Chr_T)
  ELSE (IF m.remote_request THEN Chr_r ELSE Chr_t)

DocumentedLayout(m) ==
  <<CommandByte(m)>>
  \o FormatHex(m.id, IF m.extended THEN ExtIdLength ELSE StdIdLength)
  \o <<Chr_0 + m.length>>
  \o (IF m.remote_request THEN <<>> ELSE PayloadDigits(m.payload, m.length))
  \o <<CR>>

\* C2: encode(m) emits exactly the command byte, the 8 (extended) or 3
\* (standard) identifier digits, the length digit, the payload pairs when
\* remote_request is false, and the carriage return, with no other byte in
\* between: the byte after the identifier digits is the length digit.
C2_EncodeLayout ==
  (codec_pc \in {"encoded", "decoded"} /\ ValidMessage(p_message)) =>
    p_command = DocumentedLayout(p_message)

\* The fields of a slice, by its command byte.
IsStandardCommand(p) == Len(p) >= 1 /\ p[1] \in {Chr_t, Chr_r}
IsExtendedCommand(p) == Len(p) >= 1 /\ p[1] \in {Chr_T, Chr_R}
IdLengthOf(p) == IF IsExtendedCommand(p) THEN ExtIdLength ELSE StdIdLength
FormatSizeOf(p) == IF IsExtendedCommand(p) THEN ExtFormatSize ELSE StdFormatSize
HasCommand(p) == IsStandardCommand(p) \/ IsExtendedCommand(p)

ShorterThanFormat(p) == HasCommand(p) /\ Len(p) < FormatSizeOf(p)

\* Positions of the identifier digits, and of the payload pairs that the
\* length digit announces, as far as the slice reaches.
IdPositions(p) == { i \in 2..(1 + IdLengthOf(p)) : i <= Len(p) }
LengthPosition(p) == 2 + IdLengthOf(p)
AnnouncedLength(p) ==
  IF Len(p) >= LengthPosition(p) /\ ~LengthOutOfRange(p[LengthPosition(p)])
  THEN p[LengthPosition(p)] - Chr_0 ELSE 0
PayloadPositions(p) ==
  { i \in (LengthPosition(p) + 1)..(LengthPosition(p) + 2 * AnnouncedLength(p)) :
      i <= Len(p) }

NonHexInField(p) ==
  /\ HasCommand(p)
  /\ \E i \in IdPositions(p) \cup PayloadPositions(p) : ~IsHexDigit(p[i])

LengthDigitAbove8(p) ==
  /\ HasCommand(p)
  /\ Len(p) >= LengthPosition(p)
  /\ p[LengthPosition(p)] > Chr_0 + MaxPayloadLength

\* C3: rejection. decode fails on every slice that is shorter than the
\* minimum format length of its variant (6 for t/r, 11 for T/R), or has a
\* non-hex character at any position of the identifier field or of a payload
\* pair, or whose length digit is greater than '8'.
C3_Rejection ==
  (codec_pc = "decoded"
     /\ (ShorterThanFormat(p_command) \/ NonHexInField(p_command)
           \/ LengthDigitAbove8(p_command))) =>
    ~parsed_message.has_value

\* A remote frame as the protocol documents it: r + 3 hex digits or R + 8
\* hex digits, one length digit 0..8, carriage return, no payload digits.
DocumentedRemoteFrame(p) ==
  /\ Len(p) >= 1 /\ p[1] \in {Chr_r, Chr_R}
  /\ Len(p) = IdLengthOf(p) + 3
  /\ \A i \in IdPositions(p) : IsHexDigit(p[i])
  /\ ~LengthOutOfRange(p[LengthPosition(p)])
  /\ p[Len(p)] = CR

\* C4: a remote frame received in the documented wire format (no payload
\* digits) is accepted by the parser for every length digit L in 0..8, as a
\* message with remote_request = true and length = L.
C4_RemoteFrameAccepted ==
  (codec_pc = "decoded" /\ DocumentedRemoteFrame(p_command)) =>
    /\ parsed_message.has_value
    /\ parsed_message.value.remote_request
    /\ parsed_message.value.length = p_command[LengthPosition(p_command)] - Chr_0

(***************************************************************************)
(* baud_rate_to_command_char (canusb.cpp:37-61).                           *)
(***************************************************************************)
\* Two slips in the table: 250 kHz and 500 kHz exchanged; an unknown rate
\* answered with the default's character instead of NUL.
baud_rate_to_command_char_swapped(p_baud_rate) ==
  CASE p_baud_rate = 10000 -> Chr_0
    [] p_baud_rate = 20000 -> Chr_0 + 1
    [] p_baud_rate = 50000 -> Chr_0 + 2
    [] p_baud_rate = 100000 -> Chr_0 + 3
    [] p_baud_rate = 125000 -> Chr_0 + 4
    [] p_baud_rate = 250000 -> Chr_0 + 6
    [] p_baud_rate = 500000 -> Chr_0 + 5
    [] p_baud_rate = 800000 -> Chr_0 + 7
    [] p_baud_rate = 1000000 -> Chr_0 + 8
    [] OTHER -> NUL

baud_rate_to_command_char_default(p_baud_rate) ==
  CASE p_baud_rate = 10000 -> Chr_0
    [] p_baud_rate = 20000 -> Chr_0 + 1
    [] p_baud_rate = 50000 -> Chr_0 + 2
    [] p_baud_rate = 100000 -> Chr_0 + 3
    [] p_baud_rate = 125000 -> Chr_0 + 4
    [] p_baud_rate = 250000 -> Chr_0 + 5
    [] p_baud_rate = 500000 -> Chr_0 + 6
    [] p_baud_rate = 800000 -> Chr_0 + 7
    [] p_baud_rate = 1000000 -> Chr_0 + 8
    [] OTHER -> Chr_0 + 4

baud_rate_to_command_char(p_baud_rate) ==
  CASE p_baud_rate = 10000 -> Chr_0
    [] p_baud_rate = 20000 -> Chr_0 + 1
    [] p_baud_rate = 50000 -> Chr_0 + 2
    [] p_baud_rate = 100000 -> Chr_0 + 3
    [] p_baud_rate = 125000 -> Chr_0 + 4
    [] p_baud_rate = 250000 -> Chr_0 + 5
    [] p_baud_rate = 500000 -> Chr_0 + 6
    [] p_baud_rate = 800000 -> Chr_0 + 7
    [] p_baud_rate = 1000000 -> Chr_0 + 8
    [] OTHER -> NUL

(***************************************************************************)
(* hal::v5::circular_buffer<hal::can_message>, the receive ring of the     *)
(* transceiver: a fixed array of max(1, requested) messages and a write    *)
(* index; push overwrites the slot at the write index and advances it      *)
(* modulo the capacity.                                                    *)
(***************************************************************************)
circular_buffer(p_capacity) ==
  LET capacity == Max(p_capacity, 1)
  IN [data |-> [i \in 0..(capacity - 1) |-> ZeroMessage],
      write_index |-> 0,
      capacity |-> capacity]

push(ring, message) ==
  [ring EXCEPT !.data[ring.write_index] = message,
               !.write_index = (ring.write_index + 1) % ring.capacity]

(***************************************************************************)
(* The serial port. write() is one transmission; the model keeps its       *)
(* command byte in serial_tx and the bytes in the step. The receive side   *)
(* is the producer thread of demos/platforms/mac.cpp:76-92: each time      *)
(* round its loop it takes one byte from the port's input, stores it at    *)
(* the cursor (line 83) and then publishes the cursor advanced modulo the  *)
(* buffer size (line 86). These are two writes, and the parser's thread    *)
(* may run between them as well as between any two bytes of what was       *)
(* written to the port.                                                    *)
(***************************************************************************)
\* Writes to the port's input, and the calls that write, are bounded.
MaxDeliveries == 1
MaxWrites == 2
MaxBufferSize == 2

\* The other end writes bytes to the port's input. The input is a queue:
\* a write that waits for the bytes before it to be taken shows the
\* program nothing else than one that does not.
stdin_write(bytes) ==
  /\ deliveries < MaxDeliveries
  /\ stdin = <<>>
  /\ stdin' = bytes
  /\ deliveries' = deliveries + 1
  /\ UNCHANGED <<step, codecVars, applicationVars, consumed, producer,
                 adapterVars, facetVars, serialVars, parserVars,
                 bm_acquire_called, tc_acquire_called, handler_invocations,
                 pending, stream, pass>>

\* mac.cpp:79-83, the first half of one iteration of the loop with a byte to
\* read: the byte is taken from the input and written into the buffer at
\* the cursor, a plain write that the cursor does not show yet.
serial_receive ==
  /\ producer.pc = "getchar"
  /\ stdin # <<>>
  /\ LET ch == Head(stdin)
         current_cursor == serial_cursor
     IN /\ serial_rx' = [serial_rx EXCEPT ![current_cursor] = ch]
        /\ producer' = [pc |-> "publish", ch |-> ch, current_cursor |-> current_cursor]
  /\ stdin' = Tail(stdin)
  /\ UNCHANGED <<step, codecVars, applicationVars, consumed,
                 adapterVars, facetVars, serial_tx, serial_cursor, parserVars,
                 bm_acquire_called, tc_acquire_called, handler_invocations,
                 pending, deliveries, stream, pass>>

\* mac.cpp:84-86, the second half: the cursor advanced modulo the buffer
\* size is published, and with it the byte.
serial_publish ==
  /\ producer.pc = "publish"
  /\ LET new_cursor == (producer.current_cursor + 1) % ReceiveBufferSize
     IN /\ serial_cursor' = new_cursor
        /\ pending' = Append(pending, producer.ch)
        /\ stream' = Append(stream, producer.ch)
  /\ producer' = NoByte
  /\ UNCHANGED <<step, codecVars, applicationVars, consumed, stdin,
                 adapterVars, facetVars, serial_tx, serial_rx, parserVars,
                 bm_acquire_called, tc_acquire_called, handler_invocations,
                 deliveries, pass>>

(***************************************************************************)
(* acquire_can_bus_manager, acquire_can_transceiver (canusb.cpp:310-336).  *)
(* The flag is set before make_strong_ptr allocates the facet; alloc_ok    *)
(* says whether that allocation succeeds (std::bad_alloc otherwise).       *)
(***************************************************************************)
\* A slip: the acquisition flag is tested but never set.
acquire_can_bus_manager_no_flag(alloc_ok) ==
  /\ pass.pc = "idle"
  /\ bm_acquire_called' = TRUE
  /\ IF m_bus_manager_acquired
     THEN /\ step' = Step("acquire_can_bus_manager", 0, "device_or_resource_busy", 0, <<>>)
          /\ UNCHANGED <<m_bus_manager_acquired, bus_manager>>
     ELSE /\ UNCHANGED m_bus_manager_acquired
          /\ bus_manager' = "live"
          /\ step' = Step("acquire_can_bus_manager", 0, "ok", 0, <<>>)
  /\ UNCHANGED <<codecVars, applicationVars, consumed, producerVars,
                 m_transceiver_acquired, m_is_open, m_current_baud_rate,
                 transceiver, m_bus_off_handler, serialVars, parserVars,
                 tc_acquire_called, handler_invocations, pending, deliveries, stream, pass>>

acquire_can_bus_manager(alloc_ok) ==
  /\ pass.pc = "idle"
  /\ bm_acquire_called' = TRUE
  /\ IF m_bus_manager_acquired
     THEN /\ step' = Step("acquire_can_bus_manager", 0, "device_or_resource_busy", 0, <<>>)
          /\ UNCHANGED <<m_bus_manager_acquired, bus_manager>>
     ELSE /\ m_bus_manager_acquired' = TRUE
          /\ IF alloc_ok
             THEN /\ bus_manager' = "live"
                  /\ step' = Step("acquire_can_bus_manager", 0, "ok", 0, <<>>)
             ELSE /\ UNCHANGED bus_manager
                  /\ step' = Step("acquire_can_bus_manager", 0, "bad_alloc", 0, <<>>)
  /\ UNCHANGED <<codecVars, applicationVars, consumed, producerVars,
                 m_transceiver_acquired, m_is_open, m_current_baud_rate,
                 transceiver, m_bus_off_handler, serialVars, parserVars,
                 tc_acquire_called, handler_invocations, pending, deliveries, stream, pass>>

\* A different design: one flag for both kinds, so that an adapter gives
\* out a single facet.
acquire_can_transceiver_one_facet(p_buffer_size, alloc_ok) ==
  /\ pass.pc = "idle"
  /\ tc_acquire_called' = TRUE
  /\ IF m_transceiver_acquired \/ m_bus_manager_acquired
     THEN /\ step' = Step("acquire_can_transceiver", p_buffer_size,
                          "device_or_resource_busy", 0, <<>>)
          /\ UNCHANGED <<m_transceiver_acquired, transceiver, parserVars>>
     ELSE /\ m_transceiver_acquired' = TRUE
          /\ IF alloc_ok
             THEN /\ transceiver' = "live"
                  /\ m_circular_buffer' = circular_buffer(p_buffer_size)
                  /\ m_last_serial_cursor' = 0
                  /\ m_parse_buffer' = [i \in 0..(ParseBufferSize - 1) |-> 0]
                  /\ m_parse_buffer_pos' = 0
                  /\ step' = Step("acquire_can_transceiver", p_buffer_size, "ok", 0, <<>>)
             ELSE /\ UNCHANGED <<transceiver, parserVars>>
                  /\ step' = Step("acquire_can_transceiver", p_buffer_size,
                                  "bad_alloc", 0, <<>>)
  /\ UNCHANGED <<codecVars, applicationVars, consumed, producerVars,
                 m_bus_manager_acquired, m_is_open, m_current_baud_rate,
                 bus_manager, m_bus_off_handler, serialVars,
                 bm_acquire_called, handler_invocations, pending, deliveries, stream, pass>>

\* A slip: the adapter asks for a ring of two slots at least.
acquire_can_transceiver_two_slots(p_buffer_size, alloc_ok) ==
  /\ pass.pc = "idle"
  /\ tc_acquire_called' = TRUE
  /\ IF m_transceiver_acquired
     THEN /\ step' = Step("acquire_can_transceiver", p_buffer_size,
                          "device_or_resource_busy", 0, <<>>)
          /\ UNCHANGED <<m_transceiver_acquired, transceiver, parserVars>>
     ELSE /\ m_transceiver_acquired' = TRUE
          /\ IF alloc_ok
             THEN /\ transceiver' = "live"
                  /\ m_circular_buffer' = circular_buffer(Max(p_buffer_size, 2))
                  /\ m_last_serial_cursor' = 0
                  /\ m_parse_buffer' = [i \in 0..(ParseBufferSize - 1) |-> 0]
                  /\ m_parse_buffer_pos' = 0
                  /\ step' = Step("acquire_can_transceiver", p_buffer_size, "ok", 0, <<>>)
             ELSE /\ UNCHANGED <<transceiver, parserVars>>
                  /\ step' = Step("acquire_can_transceiver", p_buffer_size,
                                  "bad_alloc", 0, <<>>)
  /\ UNCHANGED <<codecVars, applicationVars, consumed, producerVars,
                 m_bus_manager_acquired, m_is_open, m_current_baud_rate,
                 bus_manager, m_bus_off_handler, serialVars,
                 bm_acquire_called, handler_invocations, pending, deliveries, stream, pass>>

\* The canusb_transceiver constructor (canusb.cpp:269-291) builds the ring
\* and zeroes the cursor, the parse buffer and its position.
acquire_can_transceiver(p_buffer_size, alloc_ok) ==
  /\ pass.pc = "idle"
  /\ tc_acquire_called' = TRUE
  /\ IF m_transceiver_acquired
     THEN /\ step' = Step("acquire_can_transceiver", p_buffer_size,
                          "device_or_resource_busy", 0, <<>>)
          /\ UNCHANGED <<m_transceiver_acquired, transceiver, parserVars>>
     ELSE /\ m_transceiver_acquired' = TRUE
          /\ IF alloc_ok
             THEN /\ transceiver' = "live"
                  /\ m_circular_buffer' = circular_buffer(p_buffer_size)
                  /\ m_last_serial_cursor' = 0
                  /\ m_parse_buffer' = [i \in 0..(ParseBufferSize - 1) |-> 0]
                  /\ m_parse_buffer_pos' = 0
                  /\ step' = Step("acquire_can_transceiver", p_buffer_size, "ok", 0, <<>>)
             ELSE /\ UNCHANGED <<transceiver, parserVars>>
                  /\ step' = Step("acquire_can_transceiver", p_buffer_size,
                                  "bad_alloc", 0, <<>>)
  /\ UNCHANGED <<codecVars, applicationVars, consumed, producerVars,
                 m_bus_manager_acquired, m_is_open, m_current_baud_rate,
                 bus_manager, m_bus_off_handler, serialVars,
                 bm_acquire_called, handler_invocations, pending, deliveries, stream, pass>>

(***************************************************************************)
(* The last strong_ptr to a facet is dropped. canusb_bus_manager and       *)
(* canusb_transceiver (canusb.cpp:248-291) declare no destructor: the      *)
(* members go, the canusb object is not touched.                           *)
(***************************************************************************)
\* A different design: destroying the facet releases the adapter.
destroy_bus_manager_releases ==
  /\ pass.pc = "idle"
  /\ bus_manager = "live"
  /\ bus_manager' = "destroyed"
  /\ m_bus_off_handler' = "nullopt"
  /\ m_bus_manager_acquired' = FALSE
  /\ step' = Step("destroy_bus_manager", 0, "ok", 0, <<>>)
  /\ UNCHANGED <<codecVars, applicationVars, consumed, producerVars,
                 m_transceiver_acquired, m_is_open, m_current_baud_rate,
                 transceiver, serialVars, parserVars,
                 bm_acquire_called, tc_acquire_called, handler_invocations,
                 pending, deliveries, stream, pass>>

\* A different design: the bus closes with its manager.
destroy_bus_manager_closes_bus ==
  /\ pass.pc = "idle"
  /\ bus_manager = "live"
  /\ bus_manager' = "destroyed"
  /\ m_bus_off_handler' = "nullopt"
  /\ m_is_open' = FALSE
  /\ step' = Step("destroy_bus_manager", 0, "ok", 0, <<>>)
  /\ UNCHANGED <<codecVars, applicationVars, consumed, producerVars,
                 m_bus_manager_acquired, m_transceiver_acquired,
                 m_current_baud_rate, transceiver, serialVars, parserVars,
                 bm_acquire_called, tc_acquire_called, handler_invocations,
                 pending, deliveries, stream, pass>>

destroy_bus_manager ==
  /\ pass.pc = "idle"
  /\ bus_manager = "live"
  /\ bus_manager' = "destroyed"
  /\ m_bus_off_handler' = "nullopt"
  /\ step' = Step("destroy_bus_manager", 0, "ok", 0, <<>>)
  /\ UNCHANGED <<codecVars, applicationVars, consumed, producerVars,
                 adapterVars, transceiver, serialVars, parserVars,
                 bm_acquire_called, tc_acquire_called, handler_invocations,
                 pending, deliveries, stream, pass>>

destroy_transceiver ==
  /\ pass.pc = "idle"
  /\ transceiver = "live"
  /\ transceiver' = "destroyed"
  /\ m_circular_buffer' = NoRing
  /\ m_last_serial_cursor' = 0
  /\ m_parse_buffer' = [i \in 0..(ParseBufferSize - 1) |-> 0]
  /\ m_parse_buffer_pos' = 0
  /\ step' = Step("destroy_transceiver", 0, "ok", 0, <<>>)
  /\ UNCHANGED <<codecVars, applicationVars, consumed, producerVars,
                 adapterVars, bus_manager, m_bus_off_handler, serialVars,
                 bm_acquire_called, tc_acquire_called, handler_invocations,
                 pending, deliveries, stream, pass>>

(***************************************************************************)
(* canusb_bus_manager (canusb.cpp:342-386). write_ok says whether the      *)
(* serial port's write returns (it throws otherwise).                      *)
(***************************************************************************)
\* A slip in the order of the checks: the table is consulted first.
BaudRateStatusTableFirst(is_open, command_char) ==
  IF command_char = NUL THEN "operation_not_supported"
  ELSE IF is_open THEN "operation_not_permitted"
  ELSE "ok"

\* A slip: the rate may be set on an open bus.
BaudRateStatusIgnoresOpen(is_open, command_char) ==
  IF command_char = NUL THEN "operation_not_supported" ELSE "ok"

\* lines 344-352: the two checks of driver_baud_rate, in their order.
BaudRateStatus(is_open, command_char) ==
  IF is_open THEN "operation_not_permitted"
  ELSE IF command_char = NUL THEN "operation_not_supported"
  ELSE "ok"

bus_manager_driver_baud_rate(p_hertz, write_ok) ==
  LET command_char == baud_rate_to_command_char(p_hertz)
      command == <<Chr_S, command_char, CR>>
      status == BaudRateStatus(m_is_open, command_char)
  IN
  /\ pass.pc = "idle"
  /\ bus_manager = "live"
  /\ IF status # "ok"
     THEN /\ step' = Step("set_baud_rate", p_hertz, status, 0, <<>>)
          /\ UNCHANGED <<m_current_baud_rate, serial_tx>>
     ELSE IF ~write_ok
     THEN /\ step' = Step("set_baud_rate", p_hertz, "io_error", 0, <<>>)
          /\ UNCHANGED <<m_current_baud_rate, serial_tx>>
     ELSE /\ Len(serial_tx) < MaxWrites
          /\ serial_tx' = Append(serial_tx, command[1])
          /\ m_current_baud_rate' = p_hertz
          /\ step' = Step("set_baud_rate", p_hertz, "ok", 0, command)
  /\ UNCHANGED <<codecVars, applicationVars, consumed, producerVars,
                 m_bus_manager_acquired, m_transceiver_acquired, m_is_open,
                 facetVars, serial_rx, serial_cursor, parserVars,
                 bm_acquire_called, tc_acquire_called, handler_invocations,
                 pending, deliveries, stream, pass>>

\* A different design: the filter mode is configuration, refused on an open
\* bus like the baud rate.
bus_manager_driver_filter_mode_gated(p_accept) ==
  /\ pass.pc = "idle"
  /\ bus_manager = "live"
  /\ step' = Step("set_filter_mode", p_accept,
                  IF m_is_open THEN "operation_not_permitted" ELSE "ok", 0, <<>>)
  /\ UNCHANGED <<codecVars, applicationVars, consumed, producerVars,
                 adapterVars, facetVars, serialVars, parserVars,
                 bm_acquire_called, tc_acquire_called, handler_invocations,
                 pending, deliveries, stream, pass>>

bus_manager_driver_filter_mode(p_accept) ==
  /\ pass.pc = "idle"
  /\ bus_manager = "live"
  /\ step' = Step("set_filter_mode", p_accept, "ok", 0, <<>>)
  /\ UNCHANGED <<codecVars, applicationVars, consumed, producerVars,
                 adapterVars, facetVars, serialVars, parserVars,
                 bm_acquire_called, tc_acquire_called, handler_invocations,
                 pending, deliveries, stream, pass>>

bus_manager_driver_on_bus_off(p_callback) ==
  /\ pass.pc = "idle"
  /\ bus_manager = "live"
  /\ m_bus_off_handler' = p_callback
  /\ step' = Step("register_bus_off_handler", p_callback, "ok", 0, <<>>)
  /\ UNCHANGED <<codecVars, applicationVars, consumed, producerVars,
                 adapterVars, bus_manager, transceiver, serialVars,
                 parserVars, bm_acquire_called, tc_acquire_called,
                 handler_invocations, pending, deliveries, stream, pass>>

\* A slip: the open command is written whether or not the bus is open.
bus_manager_driver_bus_on_unguarded(write_ok) ==
  LET command == <<Chr_O, CR>>
  IN
  /\ pass.pc = "idle"
  /\ bus_manager = "live"
  /\ Len(serial_tx) < MaxWrites
  /\ serial_tx' = Append(serial_tx, command[1])
  /\ m_is_open' = TRUE
  /\ step' = Step("bus_on", 0, "ok", 0, command)
  /\ UNCHANGED <<codecVars, applicationVars, consumed, producerVars,
                 m_bus_manager_acquired, m_transceiver_acquired,
                 m_current_baud_rate, facetVars, serial_rx, serial_cursor,
                 parserVars, bm_acquire_called, tc_acquire_called,
                 handler_invocations, pending, deliveries, stream, pass>>

\* A slip in the order: the bus is marked open before the command is
\* written, so it stays marked when the write fails.
bus_manager_driver_bus_on_marks_first(write_ok) ==
  LET command == <<Chr_O, CR>>
  IN
  /\ pass.pc = "idle"
  /\ bus_manager = "live"
  /\ IF m_is_open
     THEN /\ step' = Step("bus_on", 0, "ok", 0, <<>>)
          /\ UNCHANGED <<m_is_open, serial_tx>>
     ELSE IF ~write_ok
     THEN /\ step' = Step("bus_on", 0, "io_error", 0, <<>>)
          /\ m_is_open' = TRUE
          /\ UNCHANGED serial_tx
     ELSE /\ Len(serial_tx) < MaxWrites
          /\ serial_tx' = Append(serial_tx, command[1])
          /\ m_is_open' = TRUE
          /\ step' = Step("bus_on", 0, "ok", 0, command)
  /\ UNCHANGED <<codecVars, applicationVars, consumed, producerVars,
                 m_bus_manager_acquired, m_transceiver_acquired,
                 m_current_baud_rate, facetVars, serial_rx, serial_cursor,
                 parserVars, bm_acquire_called, tc_acquire_called,
                 handler_invocations, pending, deliveries, stream, pass>>

bus_manager_driver_bus_on(write_ok) ==
  LET command == <<Chr_O, CR>>
  IN
  /\ pass.pc = "idle"
  /\ bus_manager = "live"
  /\ IF m_is_open
     THEN /\ step' = Step("bus_on", 0, "ok", 0, <<>>)
          /\ UNCHANGED <<m_is_open, serial_tx>>
     ELSE IF ~write_ok
     THEN /\ step' = Step("bus_on", 0, "io_error", 0, <<>>)
          /\ UNCHANGED <<m_is_open, serial_tx>>
     ELSE /\ Len(serial_tx) < MaxWrites
          /\ serial_tx' = Append(serial_tx, command[1])
          /\ m_is_open' = TRUE
          /\ step' = Step("bus_on", 0, "ok", 0, command)
  /\ UNCHANGED <<codecVars, applicationVars, consumed, producerVars,
                 m_bus_manager_acquired, m_transceiver_acquired,
                 m_current_baud_rate, facetVars, serial_rx, serial_cursor,
                 parserVars, bm_acquire_called, tc_acquire_called,
                 handler_invocations, pending, deliveries, stream, pass>>

(***************************************************************************)
(* canusb_transceiver::process_incoming_serial_data (canusb.cpp:423-465).  *)
(***************************************************************************)
\* A slip: the count is the plain difference, so bytes that wrapped around
\* the end of the transport's ring are not seen.
BytesReceivedNoWrap(current_cursor, buffer_size, last_serial_cursor) ==
  IF current_cursor >= last_serial_cursor
  THEN current_cursor - last_serial_cursor
  ELSE 0

\* lines 430-431
BytesReceived(current_cursor, buffer_size, last_serial_cursor) ==
  (current_cursor + buffer_size - last_serial_cursor) % buffer_size

\* A slip in the index: the byte after the one due.
ByteIndexOffByOne(last_serial_cursor, i, buffer_size) ==
  (last_serial_cursor + i + 1) % buffer_size

\* line 439
ByteIndex(last_serial_cursor, i, buffer_size) ==
  (last_serial_cursor + i) % buffer_size

\* A slip in the bound: the assembly buffer is filled to its last byte.
ProcessByteFillsAll(st, new_byte) ==
  LET stored ==
        IF st.parse_buffer_pos < ParseBufferSize
        THEN [st EXCEPT !.parse_buffer[st.parse_buffer_pos] = new_byte,
                        !.parse_buffer_pos = st.parse_buffer_pos + 1]
        ELSE st
      message_span ==
        [k \in 1..stored.parse_buffer_pos |-> stored.parse_buffer[k - 1]]
      parsed == string_to_can_message(message_span)
  IN IF new_byte = CR
     THEN [stored EXCEPT
             !.circular_buffer = IF parsed.has_value THEN push(@, parsed.value) ELSE @,
             !.parse_buffer_pos = 0]
     ELSE stored

\* A slip in the order: the fill length is reset before the terminator is
\* stored, so the terminator becomes the first byte of the next frame.
ProcessByteTerminatorStartsNext(st, new_byte) ==
  LET stored ==
        IF st.parse_buffer_pos < ParseBufferSize - 1
        THEN [st EXCEPT !.parse_buffer[st.parse_buffer_pos] = new_byte,
                        !.parse_buffer_pos = st.parse_buffer_pos + 1]
        ELSE st
      message_span ==
        [k \in 1..stored.parse_buffer_pos |-> stored.parse_buffer[k - 1]]
      parsed == string_to_can_message(message_span)
  IN IF new_byte = CR
     THEN [stored EXCEPT
             !.circular_buffer = IF parsed.has_value THEN push(@, parsed.value) ELSE @,
             !.parse_buffer[0] = CR,
             !.parse_buffer_pos = 1]
     ELSE stored

\* A slip: the assembly position is reset only after a frame that decoded.
ProcessByteResetOnSuccess(st, new_byte) ==
  LET stored ==
        IF st.parse_buffer_pos < ParseBufferSize - 1
        THEN [st EXCEPT !.parse_buffer[st.parse_buffer_pos] = new_byte,
                        !.parse_buffer_pos = st.parse_buffer_pos + 1]
        ELSE st
      message_span ==
        [k \in 1..stored.parse_buffer_pos |-> stored.parse_buffer[k - 1]]
      parsed == string_to_can_message(message_span)
  IN IF new_byte = CR /\ parsed.has_value
     THEN [stored EXCEPT !.circular_buffer = push(@, parsed.value),
                         !.parse_buffer_pos = 0]
     ELSE stored

\* A different ring policy: a decoded message is pushed only into a slot
\* that was never written, so a full ring keeps its oldest messages.
ProcessByteKeepsOldest(st, new_byte) ==
  LET stored ==
        IF st.parse_buffer_pos < ParseBufferSize - 1
        THEN [st EXCEPT !.parse_buffer[st.parse_buffer_pos] = new_byte,
                        !.parse_buffer_pos = st.parse_buffer_pos + 1]
        ELSE st
      message_span ==
        [k \in 1..stored.parse_buffer_pos |-> stored.parse_buffer[k - 1]]
      parsed == string_to_can_message(message_span)
      slot == st.circular_buffer.data[st.circular_buffer.write_index]
  IN IF new_byte = CR
     THEN [stored EXCEPT
             !.circular_buffer = IF parsed.has_value /\ slot = ZeroMessage
                                 THEN push(@, parsed.value) ELSE @,
             !.parse_buffer_pos = 0]
     ELSE stored

\* lines 442-461: one iteration of the loop, on the parser's members
\* st = [parse_buffer, parse_buffer_pos, circular_buffer].
ProcessByte(st, new_byte) ==
  LET stored ==
        IF st.parse_buffer_pos < ParseBufferSize - 1
        THEN [st EXCEPT !.parse_buffer[st.parse_buffer_pos] = new_byte,
                        !.parse_buffer_pos = st.parse_buffer_pos + 1]
        ELSE st
      message_span ==
        [k \in 1..stored.parse_buffer_pos |-> stored.parse_buffer[k - 1]]
      parsed == string_to_can_message(message_span)
  IN IF new_byte = CR
     THEN [stored EXCEPT
             !.circular_buffer = IF parsed.has_value THEN push(@, parsed.value) ELSE @,
             !.parse_buffer_pos = 0]
     ELSE stored

\* The parser's members as one record.
ParserState ==
  [parse_buffer |-> m_parse_buffer,
   parse_buffer_pos |-> m_parse_buffer_pos,
   circular_buffer |-> m_circular_buffer]

\* line 453: the message the iteration pushes, none or one. The iteration
\* is run on a ring of two empty slots, where a push shows as an advance of
\* the write index.
Pushed(st, new_byte) ==
  LET probe == ProcessByte([st EXCEPT !.circular_buffer = circular_buffer(2)],
                           new_byte)
  IN IF probe.circular_buffer.write_index = 1
     THEN <<probe.circular_buffer.data[0]>>
     ELSE <<>>

(***************************************************************************)
(* The polling loop of the demo application                                *)
(* (demos/applications/canusb.cpp:118-145), the consumer of the ring. The  *)
(* span over the ring is taken once, then every iteration asks for the     *)
(* cursor and goes over the slots between the cursor it remembers and the  *)
(* new one. `application.messages` is what the loops of the last iteration *)
(* went over, in order.                                                    *)
(***************************************************************************)
\* std::span::subspan(offset, count) over the ring's slots.
subspan(receive_buffer, offset, count) ==
  [k \in 1..count |-> receive_buffer.data[offset + k - 1]]

\* A slip: a cursor below the remembered one is not taken as a wrap, the
\* slots up to the end of the ring are skipped.
PollingLoopNoWrap(receive_buffer, previous_cursor, cursor) ==
  IF cursor = previous_cursor
  THEN [previous_cursor |-> previous_cursor, messages |-> <<>>]
  ELSE LET from == IF cursor < previous_cursor THEN 0 ELSE previous_cursor
           delta == cursor - from
       IN [previous_cursor |-> cursor,
           messages |-> subspan(receive_buffer, from, delta)]

\* lines 121-144: one iteration, given the cursor it has read.
PollingLoop(receive_buffer, previous_cursor, cursor) ==
  IF cursor = previous_cursor
  THEN [previous_cursor |-> previous_cursor, messages |-> <<>>]
  ELSE LET wrapped == cursor < previous_cursor
           to_the_end ==
             IF wrapped
             THEN subspan(receive_buffer, previous_cursor,
                          receive_buffer.size - previous_cursor)
             ELSE <<>>
           from == IF wrapped THEN 0 ELSE previous_cursor
           delta == cursor - from
       IN [previous_cursor |-> cursor,
           messages |-> to_the_end \o subspan(receive_buffer, from, delta)]

\* The demo once its call has returned: line 118 keeps the span, line 119
\* the cursor, and an iteration of the loop (lines 121-144) goes over the
\* slots; the span taken at line 118 views the ring as it is now. Any other
\* caller leaves the demo where it is.
AfterCall(caller, ring) ==
  IF caller # "demo" THEN application
  ELSE IF application.pc = "receive_buffer"
  THEN [application EXCEPT !.pc = "receive_cursor"]
  ELSE IF application.pc = "receive_cursor"
  THEN [pc |-> "loop", previous_cursor |-> ring.write_index, messages |-> <<>>]
  ELSE LET after == PollingLoop([data |-> ring.data, size |-> ring.capacity],
                                application.previous_cursor, ring.write_index)
       IN [pc |-> "loop",
           previous_cursor |-> after.previous_cursor,
           messages |-> after.messages]

(***************************************************************************)
(* A call of receive_buffer() or receive_cursor() (canusb.cpp:407-421)     *)
(* runs process_incoming_serial_data (423-465) and returns the span over   *)
(* the ring or its write index. The call is taken apart into the steps of  *)
(* process_incoming_serial_data: the load of the transport's cursor and    *)
(* the count, each iteration of the loop, the store of the parser's cursor *)
(* with the return. The producer's store of a byte and its publication of  *)
(* the cursor (mac.cpp:83, 86) fall between any two of them. `pending` is  *)
(* the bytes the transport has published since a call last loaded its      *)
(* cursor.                                                                 *)
(***************************************************************************)
\* What the call returns: the span { data(), capacity() } over the ring
\* (line 411) or the ring's write index (line 420).
ReceiveResult(op, ring) ==
  IF op = "receive_buffer" THEN [data |-> ring.data, size |-> ring.capacity]
  ELSE ring.write_index

\* lines 425-435: the cursor is loaded once and the new bytes are counted;
\* with none counted the call returns at once.
process_incoming_serial_data(op, caller) ==
  /\ transceiver = "live"
  /\ pass.pc = "idle"
  /\ LET current_cursor == serial_cursor
         buffer_size == ReceiveBufferSize
         bytes_received ==
           BytesReceived(current_cursor, buffer_size, m_last_serial_cursor)
     IN IF bytes_received = 0
        THEN /\ step' = Step(op, 0, "ok", ReceiveResult(op, m_circular_buffer), <<>>)
             /\ application' = AfterCall(caller, m_circular_buffer)
             /\ UNCHANGED pass
        ELSE /\ pass' = [pc |-> "loop", op |-> op, caller |-> caller,
                         current_cursor |-> current_cursor,
                         bytes_received |-> bytes_received, i |-> 0,
                         before |-> ParserState, counted |-> pending,
                         read |-> <<>>, pushed |-> <<>>]
             /\ step' = Step("process_incoming_serial_data", current_cursor, "ok",
                             bytes_received, <<>>)
             /\ UNCHANGED application
  /\ pending' = <<>>
  /\ UNCHANGED <<codecVars, consumed, producerVars, adapterVars, facetVars,
                 serialVars, parserVars, bm_acquire_called, tc_acquire_called,
                 handler_invocations, deliveries, stream>>

\* lines 438-462: one iteration of the loop; the byte is read from the
\* transport's buffer as it is now.
pass_byte ==
  /\ pass.pc = "loop"
  /\ pass.i < pass.bytes_received
  /\ LET byte_index == ByteIndex(m_last_serial_cursor, pass.i, ReceiveBufferSize)
         new_byte == serial_rx[byte_index]
         st == ProcessByte(ParserState, new_byte)
     IN /\ m_parse_buffer' = st.parse_buffer
        /\ m_parse_buffer_pos' = st.parse_buffer_pos
        /\ m_circular_buffer' = st.circular_buffer
        /\ consumed' = Append(consumed, new_byte)
        /\ pass' = [pass EXCEPT !.i = @ + 1,
                                !.read = Append(@, new_byte),
                                !.pushed = @ \o Pushed(ParserState, new_byte)]
        /\ step' = Step("process_incoming_serial_data", byte_index, "ok",
                        new_byte, <<>>)
  /\ UNCHANGED <<codecVars, applicationVars, producerVars, adapterVars, facetVars,
                 serialVars, m_last_serial_cursor, bm_acquire_called,
                 tc_acquire_called, handler_invocations, pending, deliveries,
                 stream>>

\* line 464 and the return of the call: the loop is over, the parser's
\* cursor becomes the transport's cursor as it was loaded at line 426.
pass_end ==
  /\ pass.pc = "loop"
  /\ pass.i >= pass.bytes_received
  /\ m_last_serial_cursor' = pass.current_cursor
  /\ pass' = NoPass
  /\ step' = Step(pass.op, 0, "ok", ReceiveResult(pass.op, m_circular_buffer), <<>>)
  /\ application' = AfterCall(pass.caller, m_circular_buffer)
  /\ UNCHANGED <<codecVars, consumed, producerVars, adapterVars, facetVars,
                 serialVars, m_circular_buffer, m_parse_buffer,
                 m_parse_buffer_pos, bm_acquire_called, tc_acquire_called,
                 handler_invocations, pending, deliveries, stream>>

(***************************************************************************)
(* canusb_transceiver (canusb.cpp:392-421).                                *)
(***************************************************************************)
\* A slip: the transceiver answers with the rate the adapter starts with.
transceiver_driver_baud_rate_default ==
  /\ pass.pc = "idle"
  /\ transceiver = "live"
  /\ step' = Step("baud_rate", 0, "ok", DefaultBaudRate, <<>>)
  /\ UNCHANGED <<codecVars, applicationVars, consumed, producerVars,
                 adapterVars, facetVars, serialVars, parserVars,
                 bm_acquire_called, tc_acquire_called, handler_invocations,
                 pending, deliveries, stream, pass>>

transceiver_driver_baud_rate ==
  /\ pass.pc = "idle"
  /\ transceiver = "live"
  /\ step' = Step("baud_rate", 0, "ok", m_current_baud_rate, <<>>)
  /\ UNCHANGED <<codecVars, applicationVars, consumed, producerVars,
                 adapterVars, facetVars, serialVars, parserVars,
                 bm_acquire_called, tc_acquire_called, handler_invocations,
                 pending, deliveries, stream, pass>>

transceiver_driver_send(message, write_ok) ==
  LET command_str == can_message_to_command_buffer(message)
  IN
  /\ pass.pc = "idle"
  /\ transceiver = "live"
  /\ IF ~m_is_open
     THEN /\ step' = Step("send", message, "operation_not_supported", 0, <<>>)
          /\ UNCHANGED serial_tx
     ELSE IF ~write_ok
     THEN /\ step' = Step("send", message, "io_error", 0, <<>>)
          /\ UNCHANGED serial_tx
     ELSE /\ Len(serial_tx) < MaxWrites
          /\ serial_tx' = Append(serial_tx, command_str[1])
          /\ step' = Step("send", message, "ok", 0, command_str)
  /\ UNCHANGED <<codecVars, applicationVars, consumed, producerVars,
                 adapterVars, facetVars, serial_rx, serial_cursor,
                 parserVars, bm_acquire_called, tc_acquire_called,
                 handler_invocations, pending, deliveries, stream, pass>>

\* lines 407-412: the call starts; it goes on in pass_byte and pass_end
\* unless no byte is counted.
transceiver_driver_receive_buffer ==
  process_incoming_serial_data("receive_buffer", "application")

\* lines 414-421
transceiver_driver_receive_cursor ==
  process_incoming_serial_data("receive_cursor", "application")

(***************************************************************************)
(* The inputs tried, and the specifications.                               *)
(*   Spec    the two facets driven by an application, serial port silent.  *)
(*   SpecRx  the receive path: the serial port delivers bytes, the         *)
(*           application polls the transceiver.                            *)
(***************************************************************************)
SupportedBaudRates ==
  {10000, 20000, 50000, 100000, 125000, 250000, 500000, 800000, 1000000}
BaudRates == SupportedBaudRates \cup {0, 9600, 115200, 1000001}

\* hal::v5::can_bus_manager::accept
AcceptModes == {"none", "all", "filtered"}
Callbacks == {"nullopt", "handler"}

E2EMessage ==
  can_message(1, FALSE, FALSE, 3, <<\hAB, \hCD, \hEF, 0, 0, 0, 0, 0>>)
SendMessages ==
  { E2EMessage,
    can_message(\h7FF, FALSE, TRUE, 0, ZeroPayload),
    can_message(\h123, TRUE, FALSE, 1, <<\hA5, 0, 0, 0, 0, 0, 0, 0>>) }

\* Standard data frames in the documented layout, the first t0013ABCDEF CR.
StandardDataMessages ==
  { E2EMessage,
    can_message(\h7FF, FALSE, FALSE, 0, ZeroPayload) }

\* What is written to the port at a time: three standard frames without
\* payload, 18 bytes that lap the transport's ring; or the frame
\* t0013ABCDEF CR; or the tail of a frame and a remote frame with a length.
\* The port hands them on byte by byte, and the steps of a call fall
\* anywhere between them.
ShortMessage(id) == can_message(id, FALSE, FALSE, 0, ZeroPayload)
ThreeFrames ==
  DocumentedLayout(ShortMessage(1)) \o DocumentedLayout(ShortMessage(2))
    \o DocumentedLayout(ShortMessage(\h7FF))
RxChunks ==
  { ThreeFrames,
    DocumentedLayout(E2EMessage),
    SubSeq(DocumentedLayout(E2EMessage), 4, 12)
      \o DocumentedLayout(can_message(\h123, FALSE, TRUE, 1, ZeroPayload)) }

InitSpec == InitCodecIdle /\ InitDriver

Next ==
  \/ acquire_can_bus_manager(TRUE)
  \/ \E size \in {0, MaxBufferSize} : acquire_can_transceiver(size, TRUE)
  \/ destroy_bus_manager
  \/ destroy_transceiver
  \/ \E hz \in BaudRates : bus_manager_driver_baud_rate(hz, TRUE)
  \/ \E a \in AcceptModes : bus_manager_driver_filter_mode(a)
  \/ \E cb \in Callbacks : bus_manager_driver_on_bus_off(cb)
  \/ bus_manager_driver_bus_on(TRUE)
  \/ transceiver_driver_baud_rate
  \/ \E m \in SendMessages : transceiver_driver_send(m, TRUE)
  \/ transceiver_driver_receive_buffer
  \/ transceiver_driver_receive_cursor

Spec == InitSpec /\ [][Next]_vars

NextRx ==
  \/ \E size \in {0, MaxBufferSize} : acquire_can_transceiver(size, TRUE)
  \/ \E bytes \in RxChunks : stdin_write(bytes)
  \/ serial_receive
  \/ serial_publish
  \/ transceiver_driver_receive_buffer
  \/ transceiver_driver_receive_cursor
  \/ pass_byte
  \/ pass_end

SpecRx == InitSpec /\ [][NextRx]_vars

\* SpecPull: the application drives both facets while the serial port
\* delivers two frames, 18 bytes, more than the transport's ring holds;
\* fewer inputs per operation than Spec and SpecRx.
PullChunks ==
  { DocumentedLayout(E2EMessage)
      \o DocumentedLayout(can_message(\h7FF, FALSE, FALSE, 0, ZeroPayload)) }

NextPull ==
  \/ acquire_can_bus_manager(TRUE)
  \/ acquire_can_transceiver(1, TRUE)
  \/ \E hz \in {500000, 9600} : bus_manager_driver_baud_rate(hz, TRUE)
  \/ bus_manager_driver_filter_mode("all")
  \/ bus_manager_driver_on_bus_off("handler")
  \/ bus_manager_driver_bus_on(TRUE)
  \/ transceiver_driver_baud_rate
  \/ transceiver_driver_send(E2EMessage, TRUE)
  \/ transceiver_driver_receive_buffer
  \/ transceiver_driver_receive_cursor
  \/ pass_byte
  \/ pass_end
  \/ \E bytes \in PullChunks : stdin_write(bytes)
  \/ serial_receive
  \/ serial_publish

SpecPull == InitSpec /\ [][NextPull]_vars

(***************************************************************************)
(* Properties of the receive path.                                         *)
(***************************************************************************)
ReceiveCall(op) == op \in {"receive_buffer", "receive_cursor"}

\* The steps of a call, told from the state before and after: the call
\* counts bytes and enters the loop, or counts none and returns at once; an
\* iteration reads a byte; the loop is over and the call returns.
PassStarts == pass.pc = "idle" /\ pass'.pc = "loop"
PassReturnsAtOnce ==
  /\ pass.pc = "idle"
  /\ pass'.pc = "idle"
  /\ transceiver = "live"
  /\ ReceiveCall(step'.op)
  /\ UNCHANGED <<stdin, producer, deliveries>>
PassReadsByte == pass.pc = "loop" /\ pass'.pc = "loop" /\ pass'.i = pass.i + 1
PassEnds == pass.pc = "loop" /\ pass'.pc = "idle"
PassStep == PassStarts \/ PassReturnsAtOnce \/ PassReadsByte \/ PassEnds
CallReturns == PassReturnsAtOnce \/ PassEnds

\* The bytes the producer has appended since a call last loaded the cursor:
\* those the cursor shows, and the one stored ahead of the cursor's
\* publication.
Appended ==
  IF producer.pc = "publish" THEN Append(pending, producer.ch) ELSE pending

\* The bytes the running call counted are in the transport's buffer as
\* they were delivered: the producer has stored at most M bytes since the
\* parser's cursor, so none on top of them.
Intact == Len(pass.counted) + Len(Appended) <= ReceiveBufferSize

Busy == "device_or_resource_busy"

\* What a failing call must leave alone: the adapter's members, the facets,
\* the serial port and the transceiver's members.
DriverUnchanged == UNCHANGED <<adapterVars, facetVars, serialVars, parserVars>>

\* C6: exclusivity. In any sequence of operations on one adapter the first
\* acquire_can_bus_manager call succeeds and every later one signals
\* device-or-resource-busy; likewise for acquire_can_transceiver. A call
\* that fails busy changes no adapter state (acquisition flags, bus_open,
\* current_baud_rate), writes no byte to the transport and leaves the facet
\* handed out by the first call as it was.
C6_Exclusivity ==
  [][/\ step'.op = "acquire_can_bus_manager" =>
          IF bm_acquire_called
          THEN step'.status = Busy /\ step'.written = <<>> /\ DriverUnchanged
          ELSE step'.status = "ok" /\ bus_manager' = "live"
     /\ step'.op = "acquire_can_transceiver" =>
          IF tc_acquire_called
          THEN step'.status = Busy /\ step'.written = <<>> /\ DriverUnchanged
          ELSE step'.status = "ok" /\ transceiver' = "live"]_vars

\* A second bus-manager acquisition failed busy on an adapter whose bus is
\* open and whose two facets are live.
C6_Witness ==
  /\ step.op = "acquire_can_bus_manager"
  /\ step.status = Busy
  /\ bus_manager = "live"
  /\ transceiver = "live"
  /\ m_is_open

\* C7: the acquisition flags are monotonic. Each goes from false to true at
\* most once and no operation clears it, the destruction of the acquired
\* facet included: once a facet has been destroyed, acquiring the same kind
\* of facet again from that adapter still signals device-or-resource-busy.
C7_FlagsMonotonic ==
  [][/\ m_bus_manager_acquired => m_bus_manager_acquired'
     /\ m_transceiver_acquired => m_transceiver_acquired'
     /\ (step'.op = "acquire_can_bus_manager" /\ bus_manager = "destroyed")
          => step'.status = Busy
     /\ (step'.op = "acquire_can_transceiver" /\ transceiver = "destroyed")
          => step'.status = Busy]_vars

\* The bus manager was destroyed and a new acquisition failed busy.
C7_Witness ==
  /\ step.op = "acquire_can_bus_manager"
  /\ step.status = Busy
  /\ bus_manager = "destroyed"
  /\ m_bus_manager_acquired

\* The table of the protocol: rate in Hz to the character of the S command.
BaudTable ==
  { <<10000, 48>>, <<20000, 49>>, <<50000, 50>>, <<100000, 51>>, <<125000, 52>>,
    <<250000, 53>>, <<500000, 54>>, <<800000, 55>>, <<1000000, 56>> }
InBaudTable(hz) == \E e \in BaudTable : e[1] = hz
BaudChar(hz) == (CHOOSE e \in BaudTable : e[1] = hz)[2]

\* C8: while the bus is closed, set_baud_rate(hz) with hz in the table
\* writes to the transport exactly the three bytes 'S', the table character
\* of hz, carriage return, as one command and nothing else, and afterwards
\* current_baud_rate equals hz (500000 gives 'S','6',CR).
C8_SetBaudRate ==
  [][(step'.op = "set_baud_rate" /\ ~m_is_open /\ InBaudTable(step'.param)) =>
       /\ step'.status = "ok"
       /\ step'.written = <<83, BaudChar(step'.param), 13>>
       /\ serial_tx' = Append(serial_tx, 83)
       /\ m_current_baud_rate' = step'.param]_vars

\* set_baud_rate(500000) on a closed bus wrote 'S','6',CR.
C8_Witness ==
  /\ step.op = "set_baud_rate"
  /\ step.param = 500000
  /\ step.written = <<83, 54, 13>>
  /\ m_current_baud_rate = 500000
  /\ ~m_is_open

\* bus_on() has succeeded: the open command has been written.
BusOnSucceeded == \E i \in 1..Len(serial_tx) : serial_tx[i] = Chr_O

\* C9: once bus_on() has succeeded, every set_baud_rate(hz) call fails with
\* operation-not-permitted, for hz in the table or not (the check comes
\* before the not-supported check), writes no byte to the transport and
\* leaves current_baud_rate unchanged.
C9_NotPermittedWhenOpen ==
  [][(step'.op = "set_baud_rate" /\ BusOnSucceeded) =>
       /\ step'.status = "operation_not_permitted"
       /\ step'.written = <<>>
       /\ serial_tx' = serial_tx
       /\ m_current_baud_rate' = m_current_baud_rate]_vars

\* set_baud_rate(115200), a rate outside the table, failed with
\* operation-not-permitted after bus_on().
C9_Witness ==
  /\ step.op = "set_baud_rate"
  /\ step.param = 115200
  /\ step.status = "operation_not_permitted"
  /\ BusOnSucceeded

\* C10: while the bus is closed, set_baud_rate(hz) with hz outside the
\* nine-entry table signals operation-not-supported, writes no byte to the
\* transport, and leaves current_baud_rate and bus_open unchanged.
C10_NotSupported ==
  [][(step'.op = "set_baud_rate" /\ ~m_is_open /\ ~InBaudTable(step'.param)) =>
       /\ step'.status = "operation_not_supported"
       /\ step'.written = <<>>
       /\ serial_tx' = serial_tx
       /\ m_current_baud_rate' = m_current_baud_rate
       /\ m_is_open' = m_is_open]_vars

\* set_baud_rate(115200) failed with operation-not-supported on a closed bus
\* whose rate had been set to 500000 before.
C10_Witness ==
  /\ step.op = "set_baud_rate"
  /\ step.param = 115200
  /\ step.status = "operation_not_supported"
  /\ m_current_baud_rate = 500000
  /\ ~m_is_open

\* The number of writes to the serial port that began with the byte c.
RECURSIVE CountCommand(_, _)
CountCommand(tx, c) ==
  IF tx = <<>> THEN 0
  ELSE (IF Head(tx) = c THEN 1 ELSE 0) + CountCommand(Tail(tx), c)

\* C11: bus_on() is idempotent. A call made while the bus is closed (the
\* first call) writes exactly the two bytes 'O', carriage return, in one
\* write, and sets bus_open; a call made while the bus is open (every later
\* call) writes nothing and changes nothing. Hence in every reachable state
\* the open command has been written to the transport at most once.
C11_BusOnIdempotent ==
  /\ [][step'.op = "bus_on" =>
          IF m_is_open
          THEN step'.written = <<>> /\ DriverUnchanged
          ELSE /\ step'.written = <<79, 13>>
               /\ serial_tx' = Append(serial_tx, 79)
               /\ m_is_open']_vars
  /\ [](CountCommand(serial_tx, 79) <= 1)

\* bus_on() was called on an open bus and wrote nothing; the single open
\* command is on the wire.
C11_Witness ==
  /\ step.op = "bus_on"
  /\ step.status = "ok"
  /\ step.written = <<>>
  /\ m_is_open
  /\ CountCommand(serial_tx, 79) = 1

\* C12: send(message) is gated on the bus state. While bus_open is false it
\* signals operation-not-supported and writes no byte to the transport;
\* while bus_open is true it writes exactly the bytes of the documented
\* encoding of the message to the transport, in one write, and signals no
\* error.
C12_SendGated ==
  [][step'.op = "send" =>
       IF m_is_open
       THEN /\ step'.status = "ok"
            /\ step'.written = DocumentedLayout(step'.param)
            /\ serial_tx' = Append(serial_tx, CommandByte(step'.param))
       ELSE /\ step'.status = "operation_not_supported"
            /\ step'.written = <<>>
            /\ serial_tx' = serial_tx]_vars

\* C13: bus_open is stable. It starts false, and once it is true no
\* operation of either facet, no acquisition and no destruction of a facet
\* sets it back to false.
C13_BusOpenStable ==
  /\ ~m_is_open
  /\ [][m_is_open => m_is_open']_vars

\* The bus is still open after the bus manager that opened it was destroyed.
C13_Witness ==
  /\ m_is_open
  /\ step.op = "destroy_bus_manager"
  /\ bus_manager = "destroyed"

(***************************************************************************)
(* Properties of the receive ring and of the parser pass.                  *)
(***************************************************************************)
\* The bytes being assembled: the filled part of the assembly buffer.
Assembled == [k \in 1..m_parse_buffer_pos |-> m_parse_buffer[k - 1]]

\* The messages a byte stream carries, in order: the stream is cut after
\* each carriage return and each piece that decodes gives one message.
RECURSIVE FramesDecoded(_, _)
FramesDecoded(assembly, bytes) ==
  IF bytes = <<>> THEN <<>>
  ELSE LET piece == Append(assembly, Head(bytes))
           parsed == string_to_can_message(piece)
       IN IF Head(bytes) = CR
          THEN (IF parsed.has_value THEN <<parsed.value>> ELSE <<>>)
               \o FramesDecoded(<<>>, Tail(bytes))
          ELSE FramesDecoded(piece, Tail(bytes))

\* The i-th most recent message of a ring, i in 1..capacity.
Recent(ring, i) == ring.data[(ring.write_index - i + ring.capacity) % ring.capacity]

\* C14: ring overwrite. With d[1..k] the messages of the frames parsed so
\* far, the ring of capacity N has its write index at k mod N, always in
\* 0..N-1, and holds at index (write_index - i) mod N, for i in 1..N, the
\* i-th most recent of them, d[k - i + 1], or the initial message where
\* fewer than i were parsed: once k >= N frames have been parsed, in one
\* pass or several, it holds exactly the last N decoded messages and all
\* older ones are gone. The view returned by receive_buffer() always has
\* exactly N elements, the slots of the ring, and receive_cursor() returns
\* the write index.
C14_RingOverwrite ==
  /\ [](transceiver = "live" =>
          LET d == FramesDecoded(<<>>, consumed)
              k == Len(d)
              N == m_circular_buffer.capacity
          IN /\ N >= 1
             /\ DOMAIN m_circular_buffer.data = 0..(N - 1)
             /\ m_circular_buffer.write_index \in 0..(N - 1)
             /\ m_circular_buffer.write_index = k % N
             /\ \A i \in 1..N :
                  Recent(m_circular_buffer, i) =
                    IF i <= k THEN d[k - i + 1] ELSE ZeroMessage)
  /\ [][CallReturns =>
          /\ step'.op = "receive_buffer" =>
               /\ step'.result.size = m_circular_buffer'.capacity
               /\ step'.result.data = m_circular_buffer'.data
          /\ step'.op = "receive_cursor" =>
               step'.result = m_circular_buffer'.write_index]_vars

\* Three frames went through a ring of two: the write index is back at 1,
\* slot 0 holds the third message and slot 1 the second; the first is gone.
C14_Witness ==
  /\ step.op = "receive_buffer"
  /\ FramesDecoded(<<>>, consumed) =
       <<ShortMessage(1), ShortMessage(2), ShortMessage(\h7FF)>>
  /\ m_circular_buffer.capacity = 2
  /\ m_circular_buffer.write_index = 1
  /\ m_circular_buffer.data[0] = ShortMessage(\h7FF)
  /\ m_circular_buffer.data[1] = ShortMessage(2)
  /\ ShortMessage(1) \notin {m_circular_buffer.data[i] : i \in 0..1}
  /\ step.result.size = 2

\* The parser fed a byte sequence, byte by byte.
RECURSIVE Fed(_, _)
Fed(st, bytes) ==
  IF bytes = <<>> THEN st ELSE Fed(ProcessByte(st, Head(bytes)), Tail(bytes))

\* C15: wraparound cursor. For a transport ring of capacity M, with
\* last_transport_cursor = a and current cursor = b, both in 0..M-1, a call
\* counts (b - a + M) mod M bytes, a number in 0..M-1; its i-th iteration,
\* i = 0, 1, ... in increasing order, reads the byte at index (a + i) mod M
\* of the transport's buffer, an index in 0..M-1 (a = M-2, b = 1: the 3
\* bytes at M-2, M-1, 0); it ends when it has read as many bytes as it
\* counted and then sets last_transport_cursor to b. A call that counts
\* no byte reads none and leaves the parser as it is. When the transport
\* delivered fewer than M bytes since the last call, the count is their
\* number, and the bytes read are those bytes, in order, as long as the
\* transport has stored no byte over them.
C15_WraparoundCursor ==
  /\ [](/\ serial_cursor \in 0..(ReceiveBufferSize - 1)
        /\ m_last_serial_cursor \in 0..(ReceiveBufferSize - 1))
  /\ [][PassStarts =>
          LET M == ReceiveBufferSize
              a == m_last_serial_cursor
              b == serial_cursor
          IN /\ pass'.bytes_received = (b - a + M) % M
             /\ pass'.bytes_received \in 1..(M - 1)
             /\ pass'.current_cursor = b
             /\ pass'.i = 0
             /\ Len(pending) < M => pass'.bytes_received = Len(pending)
             /\ UNCHANGED parserVars]_vars
  /\ [][PassReturnsAtOnce =>
          /\ (serial_cursor - m_last_serial_cursor + ReceiveBufferSize)
               % ReceiveBufferSize = 0
          /\ Len(pending) < ReceiveBufferSize => pending = <<>>
          /\ UNCHANGED <<parserVars, consumed>>]_vars
  /\ [][PassReadsByte =>
          LET M == ReceiveBufferSize
              a == m_last_serial_cursor
              index == step'.param
          IN /\ pass.i < pass.bytes_received
             /\ index = (a + pass.i) % M
             /\ index = IF a + pass.i < M THEN a + pass.i ELSE a + pass.i - M
             /\ index \in 0..(M - 1)
             /\ step'.result = serial_rx[index]
             /\ consumed' = Append(consumed, serial_rx[index])
             /\ m_last_serial_cursor' = a]_vars
  /\ [][PassEnds =>
          /\ pass.i = pass.bytes_received
          /\ Len(pass.read) = pass.bytes_received
          /\ (Len(pass.counted) < ReceiveBufferSize /\ Intact) =>
               pass.read = pass.counted
          /\ m_last_serial_cursor' = pass.current_cursor]_vars

\* A call that found last_transport_cursor = M - 2 and the cursor at 1 has
\* returned: it read the 3 bytes at M-2, M-1 and 0, the last three of the
\* M + 1 bytes received, and the parser's cursor is at 1.
C15_Witness ==
  /\ ReceiveCall(step.op)
  /\ Len(stream) = ReceiveBufferSize + 1
  /\ Len(consumed) = ReceiveBufferSize + 1
  /\ consumed = stream
  /\ serial_cursor = 1
  /\ m_last_serial_cursor = 1
  /\ serial_rx[ReceiveBufferSize - 2] = stream[ReceiveBufferSize - 1]
  /\ serial_rx[ReceiveBufferSize - 1] = stream[ReceiveBufferSize]
  /\ serial_rx[0] = stream[ReceiveBufferSize + 1]
  /\ m_parse_buffer_pos = 5

\* C16: malformed frames are dropped silently. When the parser reads a
\* terminator and the bytes accumulated in the assembly buffer, with the
\* terminator where there is room for it, do not decode, the ring contents
\* and the write index stay as they are, no message is pushed and the
\* assembly fill length becomes zero; and every call of receive_buffer()
\* and receive_cursor() returns without an error.
C16_MalformedDropped ==
  /\ [][(/\ PassReadsByte
         /\ step'.result = CR
         /\ ~string_to_can_message(
               IF m_parse_buffer_pos < ParseBufferSize - 1
               THEN Append(Assembled, CR) ELSE Assembled).has_value)
        =>
        (/\ m_circular_buffer' = m_circular_buffer
         /\ pass'.pushed = pass.pushed
         /\ m_parse_buffer_pos' = 0)]_vars
  /\ [][CallReturns => step'.status = "ok"]_vars

\* The tail 13ABCDEF CR of a frame was read, terminator included, by a call
\* that has returned: no error, nothing in the ring, nothing being
\* assembled.
C16_Witness ==
  /\ ReceiveCall(step.op)
  /\ step.status = "ok"
  /\ consumed = SubSeq(DocumentedLayout(E2EMessage), 4, 12)
  /\ m_last_serial_cursor = 9
  /\ m_parse_buffer[0] = Chr_0 + 1
  /\ m_parse_buffer[8] = CR
  /\ m_parse_buffer_pos = 0
  /\ m_circular_buffer.capacity = 2
  /\ m_circular_buffer.write_index = 0
  /\ m_circular_buffer.data[0] = ZeroMessage

\* C17: parsing is pull-based. Every call of receive_buffer() and of
\* receive_cursor() first runs one parser pass over all unconsumed
\* transport bytes: it counts every byte the transport delivered since the
\* last call and reads those bytes; the ring contents, the write index,
\* the assembly buffer and last_transport_cursor of a transceiver change
\* only during such a call: bytes arriving at the transport, send(),
\* baud_rate() and all bus-manager operations leave them unchanged.
C17_PullBased ==
  [][transceiver = "live" =>
       /\ PassStarts => pass'.bytes_received = Len(pending)
       /\ PassReturnsAtOnce => pending = <<>>
       /\ PassEnds => pass.read = pass.counted
       /\ ~PassStep => UNCHANGED parserVars]_vars

\* The parser's members change only during a call of receive_buffer() or
\* receive_cursor().
ParserChangesOnlyDuringCall ==
  [][(transceiver = "live" /\ ~PassStep) => UNCHANGED parserVars]_vars

(***************************************************************************)
(* Properties of the bus manager's no-ops and of the shared baud rate.     *)
(***************************************************************************)
\* C18: set_filter_mode (any argument) and register_bus_off_handler (any
\* callback) are accepted in both bus states, signal no error, write no
\* byte to the transport and leave bus_open, current_baud_rate and the
\* acquisition flags unchanged; and no operation ever invokes a registered
\* bus-off handler.
C18_NoOps ==
  /\ [][step'.op \in {"set_filter_mode", "register_bus_off_handler"} =>
          /\ step'.status = "ok"
          /\ step'.written = <<>>
          /\ UNCHANGED <<adapterVars, serialVars>>]_vars
  /\ [][step'.op = "register_bus_off_handler" =>
          m_bus_off_handler' = step'.param]_vars
  /\ [](handler_invocations = 0)

\* A handler was registered on an open bus, accepted, and is stored.
C18_Witness ==
  /\ step.op = "register_bus_off_handler"
  /\ step.param = "handler"
  /\ step.status = "ok"
  /\ m_bus_off_handler = "handler"
  /\ m_is_open
  /\ handler_invocations = 0

\* A set_baud_rate call succeeded: the S command has been written.
BaudRateWasSet == \E i \in 1..Len(serial_tx) : serial_tx[i] = Chr_S

\* C19: the transceiver's baud_rate() returns the adapter's current rate:
\* 125000 as long as no set_baud_rate has succeeded, and after a successful
\* set_baud_rate(hz) through the bus manager that hz, until the next
\* successful one; a failed set_baud_rate and every other operation leave
\* the rate as it is.
C19_SharedBaudRate ==
  /\ [](~BaudRateWasSet => m_current_baud_rate = 125000)
  /\ [][/\ step'.op = "baud_rate" =>
             step'.status = "ok" /\ step'.result = m_current_baud_rate
        /\ (step'.op = "set_baud_rate" /\ step'.status = "ok") =>
             m_current_baud_rate' = step'.param
        /\ ~(step'.op = "set_baud_rate" /\ step'.status = "ok") =>
             m_current_baud_rate' = m_current_baud_rate]_vars

\* baud_rate() returned 500000 on an open bus: the rate set through the bus
\* manager before the bus was opened.
C19_Witness ==
  /\ step.op = "baud_rate"
  /\ step.result = 500000
  /\ serial_tx = <<Chr_S, Chr_O>>
  /\ m_is_open

\* C20: acquire_can_transceiver with a requested buffer size of 0 yields a
\* transceiver whose receive ring has capacity 1. The capacity of a ring
\* never changes, and on a ring of capacity 1 every call of
\* receive_buffer() returns a view of exactly one element and every call of
\* receive_cursor() returns 0, whatever has been received.
C20_ZeroBecomesOne ==
  /\ [][(/\ step'.op = "acquire_can_transceiver"
         /\ step'.status = "ok"
         /\ step'.param = 0)
        =>
        (/\ m_circular_buffer'.capacity = 1
         /\ DOMAIN m_circular_buffer'.data = {0}
         /\ m_circular_buffer'.write_index = 0)]_vars
  /\ [][(transceiver = "live" /\ m_circular_buffer.capacity = 1) =>
          /\ m_circular_buffer'.capacity = 1
          /\ m_circular_buffer'.write_index = 0
          /\ (CallReturns /\ step'.op = "receive_buffer") =>
               /\ step'.result.size = 1
               /\ DOMAIN step'.result.data = {0}
          /\ (CallReturns /\ step'.op = "receive_cursor") => step'.result = 0]_vars

\* A transceiver was acquired with size 0 and three frames were read
\* through its ring: it has one slot, which holds the last message, and a
\* call of receive_cursor() has just returned 0.
C20_Witness ==
  /\ step.op = "receive_cursor"
  /\ step.result = 0
  /\ transceiver = "live"
  /\ Len(FramesDecoded(<<>>, consumed)) = 3
  /\ m_circular_buffer.capacity = 1
  /\ DOMAIN m_circular_buffer.data = {0}
  /\ m_circular_buffer.write_index = 0
  /\ m_circular_buffer.data[0] = can_message(\h7FF, FALSE, FALSE, 0, ZeroPayload)

(***************************************************************************)
(* The decoded identifier, the ring's lengths, the case of hex digits and  *)
(* the size of an encoded frame.                                           *)
(***************************************************************************)
\* An identifier of 11 bits, or of 29 bits when extended.
IdInRange(m) == m.id \in 0..(IF m.extended THEN \h1FFFFFFF ELSE \h7FF)

\* C21: every message that decode yields has an id within the valid range
\* for its extended flag: 0..0x7FF when extended is false and
\* 0..0x1FFFFFFF when extended is true.
C21_IdInRange ==
  (codec_pc = "decoded" /\ parsed_message.has_value) =>
    IdInRange(parsed_message.value)

\* The longest frame the protocol documents: command byte, 8 identifier
\* digits, length digit, 16 payload digits, terminator.
DocumentedMaxSize == 1 + ExtIdLength + 1 + 2 * MaxPayloadLength + 1

\* C24: no message with length <= 8 encodes to more than 27 bytes, so the
\* 28-byte command buffer never fills.
C24_EncodeFits ==
  (codec_pc \in {"encoded", "decoded"} /\ p_message.length <= MaxPayloadLength) =>
    /\ Len(p_command) <= DocumentedMaxSize
    /\ Len(p_command) < CommandBufferSize

\* A slice with the upper-case hex digits A..F at the given positions
\* replaced by their lower-case forms, and with the case of its command byte
\* changed.
UpperHexPositions(p) == { i \in 2..Len(p) : p[i] \in 65..70 }
LowerCased(p, positions) ==
  [i \in 1..Len(p) |-> IF i \in positions THEN LowerCase(p[i]) ELSE p[i]]
OtherCaseCommand(p) ==
  [p EXCEPT ![1] = IF @ \in 65..90 THEN @ + 32 ELSE IF @ \in 97..122 THEN @ - 32 ELSE @]

\* C23: decoding is case-insensitive in the hex fields: replacing any
\* upper-case hex digit A..F of the identifier or payload of a frame by its
\* lower-case form yields the same decoded message (one digit replaced, or
\* all of them); the command byte stays case-sensitive, so a frame that
\* decodes does not decode to the same message with the other case of its
\* command byte.
C23_HexCaseInsensitive ==
  codec_pc = "decoded" =>
    /\ \A i \in UpperHexPositions(p_command) :
         string_to_can_message(LowerCased(p_command, {i})) = parsed_message
    /\ string_to_can_message(LowerCased(p_command, UpperHexPositions(p_command)))
         = parsed_message
    /\ (parsed_message.has_value /\ TopDigitFits(OtherCaseCommand(p_command))) =>
         string_to_can_message(OtherCaseCommand(p_command)) # parsed_message

\* The frame t7aB0 CR, with one lower-case digit in its identifier, decoded
\* to the standard message with id 0x7AB.
C23_Witness ==
  /\ codec_pc = "decoded"
  /\ p_command = <<Chr_t, 55, 97, 66, Chr_0, CR>>
  /\ parsed_message.has_value
  /\ parsed_message.value.id = \h7AB
  /\ ~parsed_message.value.extended

(***************************************************************************)
(* SpecStream: the receive path fed a frame that is longer than the        *)
(* transport's ring is, so that a pass reads it whole only in parts.       *)
(***************************************************************************)
\* A frame that announces nine payload bytes and carries them:
\* t0019 112233445566778899 CR, 24 bytes.
OversizeFrame ==
  WireFrame(Chr_t, FormatHex(1, StdIdLength), MaxPayloadLength + 1,
            PayloadDigits(<<\h11, \h22, \h33, \h44, \h55, \h66, \h77, \h88, \h99>>,
                          MaxPayloadLength + 1))

StreamChunks == { OversizeFrame }

NextStream ==
  \/ acquire_can_transceiver(MaxBufferSize, TRUE)
  \/ \E bytes \in StreamChunks : stdin_write(bytes)
  \/ serial_receive
  \/ serial_publish
  \/ transceiver_driver_receive_buffer
  \/ transceiver_driver_receive_cursor
  \/ pass_byte
  \/ pass_end

SpecStream == InitSpec /\ [][NextStream]_vars

\* C22: every message in the receive ring, written or still in its initial
\* state, has length <= 8, after any sequence of transport bytes and parser
\* passes, and between any two steps of a pass.
C22_RingLengths ==
  transceiver # "none" =>
    \A i \in DOMAIN m_circular_buffer.data :
      m_circular_buffer.data[i].length \in 0..MaxPayloadLength

\* A frame announcing nine payload bytes arrived and was read, in parts,
\* to its terminator, by calls that have returned: the terminator emptied
\* the assembly and the ring holds no message of the frame.
C22_Witness ==
  /\ ReceiveCall(step.op)
  /\ pass.pc = "idle"
  /\ stream = OversizeFrame
  /\ consumed = stream
  /\ pending = <<>>
  /\ m_parse_buffer_pos = 0
  /\ m_parse_buffer[StdIdLength + 1] = Chr_0 + MaxPayloadLength + 1
  /\ m_circular_buffer.write_index = 0
  /\ m_circular_buffer.data[0] = ZeroMessage
  /\ m_circular_buffer.data[1] = ZeroMessage

(***************************************************************************)
(* The parser pass and the byte stream: the concurrent producer, passes    *)
(* that see no byte, the split of a stream over passes, resynchronisation, *)
(* overflow of the assembly buffer.                                        *)
(***************************************************************************)
\* C25: with a transport producer that appends bytes and advances its cursor
\* concurrently (before, between or during parser passes), every byte the
\* producer appended is processed by the parser exactly once and in
\* transport order, provided fewer than M bytes are unconsumed at the start
\* of each pass: such a pass counts all the unconsumed bytes, returns at
\* once only when there are none, reads in its i-th iteration the i-th of
\* the bytes it counted and ends having read as many as it counted; the
\* core never writes the transport buffer or cursor.
C25_ConcurrentProducer ==
  [][PassStep =>
       /\ UNCHANGED <<serial_rx, serial_cursor>>
       /\ (PassStarts /\ Len(pending) < ReceiveBufferSize) =>
            (pass'.bytes_received = Len(pending) /\ pass'.i = 0)
       /\ (PassReturnsAtOnce /\ Len(pending) < ReceiveBufferSize) =>
            pending = <<>>
       /\ (PassReadsByte /\ Len(pass.counted) < ReceiveBufferSize) =>
            step'.result = pass.counted[pass.i + 1]
       /\ PassEnds =>
            /\ pass.i = pass.bytes_received
            /\ m_last_serial_cursor' = pass.current_cursor]_vars

\* C26: a parser pass computes new_bytes = 0 and returns without processing
\* anything only when the transport has made no progress since the previous
\* pass, i.e. no byte was delivered in between.
C26_ZeroOnlyWithoutProgress ==
  [][PassReturnsAtOnce => pending = <<>>]_vars

\* C27: partition independence. For a fixed transport byte stream, the ring
\* contents, the ring write index and the assembly state are the same
\* however the stream is split across parser passes, as long as each pass
\* sees fewer than M new bytes: a pass that sees fewer than M new bytes
\* leaves the parser as feeding it those bytes one after the other does,
\* so that, pass after pass, the parser is what one pass over all the
\* bytes seen so far makes of it.
C27_PartitionIndependence ==
  [][(PassEnds /\ Len(pass.counted) < ReceiveBufferSize) =>
       ParserState' = Fed(pass.before, pass.counted)]_vars

\* A well-formed frame of the protocol: command byte, 3 or 8 hex digits,
\* one length digit 0..8, two hex digits per payload byte for a data frame
\* and none for a remote frame, carriage return. And the message it spells.
IsRemoteCommand(p) == Len(p) >= 1 /\ p[1] \in {Chr_r, Chr_R}
WellFormedFrame(p) ==
  /\ HasCommand(p)
  /\ Len(p) >= FormatSizeOf(p)
  /\ \A i \in IdPositions(p) : IsHexDigit(p[i])
  /\ ~LengthOutOfRange(p[LengthPosition(p)])
  /\ Len(p) = LengthPosition(p) + 1
                + (IF IsRemoteCommand(p) THEN 0 ELSE 2 * AnnouncedLength(p))
  /\ \A i \in (LengthPosition(p) + 1)..(Len(p) - 1) : IsHexDigit(p[i])
  /\ p[Len(p)] = CR

FrameMessage(p) ==
  LET L == AnnouncedLength(p)
      at == LengthPosition(p)
  IN can_message(HexNumber(SubSeq(p, 2, at - 1)), IsExtendedCommand(p),
                 IsRemoteCommand(p), L,
                 [i \in 1..PayloadSize |->
                    IF i <= L /\ ~IsRemoteCommand(p)
                    THEN HexNumber(SubSeq(p, at + 2 * i - 1, at + 2 * i))
                    ELSE 0])

\* The messages of the well-formed frames of a byte stream: the stream is
\* cut after each carriage return and each piece that is exactly one
\* well-formed frame gives its message.
RECURSIVE WellFormedFrames(_, _)
WellFormedFrames(assembly, bytes) ==
  IF bytes = <<>> THEN <<>>
  ELSE LET piece == Append(assembly, Head(bytes))
       IN IF Head(bytes) = CR
          THEN (IF WellFormedFrame(piece) THEN <<FrameMessage(piece)>> ELSE <<>>)
               \o WellFormedFrames(<<>>, Tail(bytes))
          ELSE WellFormedFrames(piece, Tail(bytes))

\* The bytes assembled when the running call started.
AssembledBefore ==
  [k \in 1..pass.before.parse_buffer_pos |-> pass.before.parse_buffer[k - 1]]

\* The call has read no piece longer than the assembly buffer takes.
PassFitsAssembly ==
  pass.before.parse_buffer_pos + Len(pass.read) < ParseBufferSize

\* C28: resynchronisation. At each terminator byte a message is pushed if
\* and only if the bytes received since the previous terminator (or since
\* the start of the stream), terminator included, form exactly one
\* well-formed frame: a pass pushes the messages of the well-formed frames
\* among the terminated pieces it completes, in order, and nothing else.
C28_Resynchronisation ==
  [][(PassEnds /\ PassFitsAssembly) =>
       LET d == WellFormedFrames(AssembledBefore, pass.read)
           j == Len(d)
           previous == pass.before.circular_buffer
           N == previous.capacity
       IN /\ pass.pushed = d
          /\ m_circular_buffer'.write_index = (previous.write_index + j) % N
          /\ \A i \in 1..N :
               Recent(m_circular_buffer', i) =
                 IF i <= j THEN d[j - i + 1] ELSE Recent(previous, i - j)]_vars

(***************************************************************************)
(* SpecFill: the receive path fed 32 bytes without a terminator, more than *)
(* the assembly buffer takes, that begin as an extended data frame does,   *)
(* then a terminator and a frame. The port's receive buffer has            *)
(* LargeTransportCapacity bytes, more than the stream.                     *)
(***************************************************************************)
\* T00000001 8 1122334455667788 and the digits 99AAB: 31 bytes.
FrameLikeBytes ==
  SubSeq(DocumentedLayout(can_message(1, TRUE, FALSE, MaxPayloadLength,
                                      <<\h11, \h22, \h33, \h44, \h55, \h66, \h77, \h88>>)),
         1, ExtFormatSize - 1 + 2 * MaxPayloadLength)
    \o <<57, 57, 65, 65, 66>>
Overflowing == FrameLikeBytes \o <<67>>
FillChunks ==
  { Overflowing \o <<CR>>
      \o DocumentedLayout(can_message(\h7FF, FALSE, FALSE, 0, ZeroPayload)) }

NextFill ==
  \/ acquire_can_transceiver(MaxBufferSize, TRUE)
  \/ \E bytes \in FillChunks : stdin_write(bytes)
  \/ serial_receive
  \/ serial_publish
  \/ transceiver_driver_receive_buffer
  \/ transceiver_driver_receive_cursor
  \/ pass_byte
  \/ pass_end

InitFill == InitCodecIdle /\ InitDriverOn(LargeTransportCapacity)

SpecFill == InitFill /\ [][NextFill]_vars

\* C29: assembly overflow is bounded and harmless. The assembly fill length
\* never exceeds capacity minus one (31 of 32 bytes); a byte read while the
\* buffer is full is dropped, the terminator included: the buffer keeps its
\* bytes; a terminator read while it is full still resets the fill length
\* to zero, and no message is pushed: the ring stays as it is.
C29_AssemblyOverflow ==
  /\ [](m_parse_buffer_pos \in 0..(ParseBufferSize - 1))
  /\ [][(PassReadsByte /\ m_parse_buffer_pos = ParseBufferSize - 1) =>
          /\ m_parse_buffer' = m_parse_buffer
          /\ m_circular_buffer' = m_circular_buffer
          /\ pass'.pushed = pass.pushed
          /\ m_parse_buffer_pos' =
               IF step'.result = CR THEN 0 ELSE ParseBufferSize - 1]_vars

\* The 32 bytes, the terminator and the frame t7FF0 CR were read: the
\* buffer kept the first 31 bytes until the frame came, the 32nd byte and
\* the terminator were dropped, the terminator emptied the assembly and
\* pushed nothing, and the frame after it is the one message in the ring.
C29_Witness ==
  /\ ReceiveCall(step.op)
  /\ consumed = Overflowing \o <<CR>>
                  \o DocumentedLayout(can_message(\h7FF, FALSE, FALSE, 0, ZeroPayload))
  /\ m_parse_buffer_pos = 0
  /\ m_parse_buffer[0] = Chr_t
  /\ m_parse_buffer[ExtIdLength] = Chr_0 + 1
  /\ m_parse_buffer[ParseBufferSize - 2] = 66
  /\ m_parse_buffer[ParseBufferSize - 1] = 0
  /\ m_circular_buffer.write_index = 1
  /\ m_circular_buffer.data[0] = can_message(\h7FF, FALSE, FALSE, 0, ZeroPayload)
  /\ m_circular_buffer.data[1] = ZeroMessage

\* The place of the last carriage return in a byte sequence, 0 if none.
RECURSIVE LastTerminator(_)
LastTerminator(bytes) ==
  IF bytes = <<>> THEN 0
  ELSE IF bytes[Len(bytes)] = CR THEN Len(bytes)
  ELSE LastTerminator(SubSeq(bytes, 1, Len(bytes) - 1))

\* C30: after every completed parser pass, and after every byte of a pass,
\* the assembled bytes hold no terminator and the fill length equals
\* min(31, number of bytes processed since the last terminator); it is
\* zero whenever the last processed byte was a terminator, whether or not
\* the decode succeeded.
C30_AssemblyAfterPass ==
  transceiver = "live" =>
    /\ \A k \in 0..(m_parse_buffer_pos - 1) : m_parse_buffer[k] # CR
    /\ m_parse_buffer_pos =
         Min(ParseBufferSize - 1, Len(consumed) - LastTerminator(consumed))
    /\ (consumed # <<>> /\ consumed[Len(consumed)] = CR) => m_parse_buffer_pos = 0

\* The 32 bytes without a terminator were read, by calls that have
\* returned: the fill length stands at 31, and nothing is in the ring.
C30_Witness ==
  /\ ReceiveCall(step.op)
  /\ pass.pc = "idle"
  /\ consumed = Overflowing
  /\ m_parse_buffer_pos = ParseBufferSize - 1
  /\ m_parse_buffer[ParseBufferSize - 2] = 66
  /\ m_circular_buffer.write_index = 0

(***************************************************************************)
(* Frames pushed by one pass, and the order of the commands written.       *)
(***************************************************************************)
\* C31: a parser pass over bytes containing k well-formed frames, each
\* starting right after a terminator, pushes their messages in transport
\* order and advances the ring write index by exactly k modulo N; pieces
\* that are not a well-formed frame advance it by zero. When k > N in one
\* pass only the last N remain.
C31_FramesPushedInOrder ==
  [][(/\ PassEnds
      /\ PassFitsAssembly
      /\ pass.before.parse_buffer_pos = 0
      /\ pass.read # <<>>
      /\ pass.read[Len(pass.read)] = CR)
     =>
     LET d == WellFormedFrames(<<>>, pass.read)
         k == Len(d)
         previous == pass.before.circular_buffer
         N == previous.capacity
     IN /\ pass.pushed = d
        /\ m_circular_buffer'.write_index = (previous.write_index + k) % N
        /\ \A i \in 1..Min(k, N) : Recent(m_circular_buffer', i) = d[k - i + 1]
        /\ \A i \in (k + 1)..N :
             Recent(m_circular_buffer', i) = Recent(previous, i - k)]_vars

\* SpecFault: the two facets driven by an application, with an allocator
\* that may fail and a serial port whose write may fail.
NextFault ==
  \/ \E alloc_ok \in BOOLEAN : acquire_can_bus_manager(alloc_ok)
  \/ \E alloc_ok \in BOOLEAN : acquire_can_transceiver(1, alloc_ok)
  \/ destroy_bus_manager
  \/ destroy_transceiver
  \/ \E hz \in {500000, 9600}, write_ok \in BOOLEAN :
       bus_manager_driver_baud_rate(hz, write_ok)
  \/ \E write_ok \in BOOLEAN : bus_manager_driver_bus_on(write_ok)
  \/ \E write_ok \in BOOLEAN : transceiver_driver_send(E2EMessage, write_ok)

SpecFault == InitSpec /\ [][NextFault]_vars

\* The place of a command in the order set-baud-rate, open, frame.
CommandRank(c) == IF c = Chr_S THEN 0 ELSE IF c = Chr_O THEN 1 ELSE 2
IsFrameCommand(c) == c \in {Chr_t, Chr_T, Chr_r, Chr_R}

\* C32: in the sequence of commands written to the transport over any run
\* of one adapter, every set-baud-rate command precedes the single open
\* command and every frame written by send follows it: the output always
\* matches (S-command)* then at most one O-command then (frame)*, with no
\* frame before the open command and no S-command after it.
C32_CommandOrder ==
  /\ \A i \in 1..Len(serial_tx) :
       serial_tx[i] = Chr_S \/ serial_tx[i] = Chr_O \/ IsFrameCommand(serial_tx[i])
  /\ \A i, j \in 1..Len(serial_tx) :
       i < j => CommandRank(serial_tx[i]) <= CommandRank(serial_tx[j])
  /\ CountCommand(serial_tx, Chr_O) <= 1
  /\ \A j \in 1..Len(serial_tx) :
       IsFrameCommand(serial_tx[j]) => \E i \in 1..(j - 1) : serial_tx[i] = Chr_O

\* The open command and then a frame have been written, and nothing else.
C32_Witness ==
  /\ serial_tx = <<Chr_O, Chr_t>>
  /\ step.op = "send"
  /\ step.status = "ok"
  /\ m_is_open

\* The serial port's write failed in the step just taken.
WriteFailed == step'.status = "io_error"

\* C33: state is updated only after the transport write returns. If the
\* write fails inside set_baud_rate, current_baud_rate keeps its previous
\* value; if it fails inside bus_on, bus_open stays false, so a later
\* bus_on writes the open command again and send still fails with
\* operation-not-supported.
C33_StateAfterWrite ==
  /\ [][(step'.op = "set_baud_rate" /\ WriteFailed) =>
          (DriverUnchanged /\ ~m_is_open)]_vars
  /\ [][(step'.op = "bus_on" /\ WriteFailed) =>
          (DriverUnchanged /\ ~m_is_open')]_vars
  /\ [][(step'.op = "bus_on" /\ ~m_is_open /\ ~WriteFailed) =>
          step'.written = <<Chr_O, CR>>]_vars
  /\ [][(step'.op = "send" /\ ~m_is_open) =>
          (step'.status = "operation_not_supported" /\ step'.written = <<>>)]_vars

\* After a rate of 500000 was set, the write of the open command failed:
\* the bus is still closed, the rate is still 500000 and only the S command
\* is on the wire.
C33_Witness ==
  /\ step.op = "bus_on"
  /\ step.status = "io_error"
  /\ ~m_is_open
  /\ m_current_baud_rate = 500000
  /\ serial_tx = <<Chr_S>>

\* C34: an acquisition flag becomes true only on a successful acquisition.
\* If acquire_can_bus_manager or acquire_can_transceiver fails, for example
\* because allocating the facet fails, the corresponding flag is still false
\* afterwards and a later acquisition attempt can succeed; the flag is true
\* only while some caller was actually handed a facet.
C34_FlagOnlyOnSuccess ==
  /\ [][(step'.op = "acquire_can_bus_manager" /\ step'.status = "bad_alloc")
          => ~m_bus_manager_acquired']_vars
  /\ [][(step'.op = "acquire_can_transceiver" /\ step'.status = "bad_alloc")
          => ~m_transceiver_acquired']_vars
  /\ [](m_bus_manager_acquired => bus_manager # "none")
  /\ [](m_transceiver_acquired => transceiver # "none")

\* C35: the two facets share one bus state and are acquired independently.
\* Acquiring one kind of facet never affects whether the other can be
\* acquired, in either order: an acquisition succeeds exactly when none of
\* its kind was made before, and leaves the other kind's flag and facet
\* alone. send through the transceiver succeeds exactly when bus_on has
\* been completed through the bus manager of the same adapter, whether the
\* transceiver was acquired before or after, and fails with
\* operation-not-supported otherwise.
C35_IndependentFacets ==
  /\ [][step'.op = "acquire_can_bus_manager" =>
          /\ step'.status = "ok" <=> ~bm_acquire_called
          /\ UNCHANGED <<m_transceiver_acquired, transceiver, m_is_open>>]_vars
  /\ [][step'.op = "acquire_can_transceiver" =>
          /\ step'.status = "ok" <=> ~tc_acquire_called
          /\ UNCHANGED <<m_bus_manager_acquired, bus_manager, m_is_open>>]_vars
  /\ [][step'.op = "send" =>
          /\ step'.status = "ok" <=> BusOnSucceeded
          /\ ~BusOnSucceeded => step'.status = "operation_not_supported"]_vars
  /\ [](m_is_open <=> BusOnSucceeded)

\* The transceiver was acquired on a bus that the bus manager had already
\* opened, and the acquisition succeeded.
C35_Witness ==
  /\ step.op = "acquire_can_transceiver"
  /\ step.status = "ok"
  /\ transceiver = "live"
  /\ bus_manager = "live"
  /\ m_is_open
  /\ serial_tx = <<Chr_O>>

(***************************************************************************)
(* The indices of its argument that string_to_can_message touches          *)
(* (canusb.cpp:77-153), counted from 1: the elements it reads, and the     *)
(* elements whose address it takes as the end of a range for               *)
(* std::from_chars. SpecSlice decodes slices of every length up to 31.     *)
(***************************************************************************)
\* The byte at an index, 0 where the slice has none.
At(p, i) == IF i \in 1..Len(p) THEN p[i] ELSE 0
Slice(p, from, to) == [k \in 1..(to - from + 1) |-> At(p, from + k - 1)]

\* std::from_chars on p[from..to]: it reads digits up to the first byte
\* that is not one, that byte included, and no further than `to`.
FromCharsReads(p, from, to) ==
  from..Min(to, from + HexPrefixLength(Slice(p, from, to)))

\* lines 145-154: the payload pairs from the i-th on; data_at is the index
\* of the first payload digit.
RECURSIVE PayloadReads(_, _, _, _)
PayloadReads(p, data_at, payload_length, i) ==
  IF i >= payload_length THEN {}
  ELSE LET from == data_at + 2 * i
           status == from_chars(Slice(p, from, from + 1))
       IN FromCharsReads(p, from, from + 1)
          \cup {from + 2}
          \cup (IF status.ec # "ok" THEN {}
                ELSE PayloadReads(p, data_at, payload_length, i + 1))

\* lines 112-154 with the check of lines 102-104 left out.
FrameReadsUnguarded(p, format_size, id_byte_length) ==
  LET length_at == 2 + id_byte_length
      id_status == from_chars(Slice(p, 2, 1 + id_byte_length))
      payload_length == At(p, length_at) - Chr_0
      remaining == Len(p) - length_at
  IN {1}
     \cup FromCharsReads(p, 2, 1 + id_byte_length)
     \cup {length_at}
     \cup (IF id_status.ec # "ok" \/ LengthOutOfRange(At(p, length_at))
              \/ remaining # (payload_length * 2) + 1
           THEN {}
           ELSE PayloadReads(p, length_at + 1, payload_length, 0))

\* lines 102-154, once the command byte has selected the format.
FrameReads(p, format_size, id_byte_length) ==
  IF Len(p) < format_size THEN {1}
  ELSE
    LET length_at == 2 + id_byte_length
        id_status == from_chars(Slice(p, 2, 1 + id_byte_length))
        payload_length == At(p, length_at) - Chr_0
        remaining == Len(p) - length_at
    IN {1}
       \cup FromCharsReads(p, 2, 1 + id_byte_length)
       \cup {length_at}
       \cup (IF id_status.ec # "ok" \/ LengthOutOfRange(At(p, length_at))
                \/ remaining # (payload_length * 2) + 1
             THEN {}
             ELSE PayloadReads(p, length_at + 1, payload_length, 0))

string_to_can_message_reads(p) ==
  IF p = <<>> THEN {}
  ELSE IF p[1] \in {Chr_r, Chr_t} THEN FrameReads(p, StdFormatSize, StdIdLength)
  ELSE IF p[1] \in {Chr_R, Chr_T} THEN FrameReads(p, ExtFormatSize, ExtIdLength)
  ELSE {1}

\* Slices of every length 0..31: each frame tried, cut short or followed by
\* more bytes.
MaxSliceLength == ParseBufferSize - 1
Padding == [i \in 1..MaxSliceLength |-> IF i % 3 = 0 THEN CR ELSE Chr_0 + (i % 10)]
SliceInputs ==
  { s \in { SubSeq(f \o Padding, 1, n) :
              f \in BaseFrames \cup { SubSeq(g, 1, Len(g) - 1) : g \in BaseFrames }
                      \cup { <<>>, <<CR>>, <<65>> },
              n \in 0..MaxSliceLength } : TopDigitFits(s) }

InitSlice ==
  /\ InitDriver
  /\ codec_pc = "bytes"
  /\ p_message = ZeroMessage
  /\ p_command \in SliceInputs
  /\ parsed_message = nullopt

SpecSlice == InitSlice /\ [][NextDecode]_vars

\* C36: decode is memory-safe and total. For every input slice of every
\* length 0..31 it ends with either a message or failure, and never touches
\* an index outside the slice: the minimum-length check guards the
\* identifier and length-digit reads, the exact remaining-length check
\* guards every payload pair read.
C36_DecodeMemorySafe ==
  codec_pc = "decoded" =>
    /\ string_to_can_message_reads(p_command) \subseteq 1..Len(p_command)
    /\ parsed_message.has_value \in BOOLEAN
    /\ parsed_message.has_value =>
         /\ parsed_message.value.length \in 0..PayloadSize
         /\ Len(parsed_message.value.payload) = PayloadSize
    /\ ~parsed_message.has_value => parsed_message = nullopt

\* A frame of 22 bytes with all its eight payload pairs was decoded: every
\* index up to the terminator was touched, and none beyond.
C36_Witness ==
  /\ codec_pc = "decoded"
  /\ Len(p_command) = StdFormatSize + 2 * MaxPayloadLength
  /\ parsed_message.has_value
  /\ parsed_message.value.length = MaxPayloadLength
  /\ string_to_can_message_reads(p_command) = 1..Len(p_command)

(***************************************************************************)
(* SpecPoll: the polling loop of the demo application                      *)
(* (demos/applications/canusb.cpp:118-145) as the consumer of the ring,    *)
(* with the serial port delivering frames while it runs.                   *)
(***************************************************************************)
\* line 118: the call starts.
application_receive_buffer ==
  /\ application.pc = "receive_buffer"
  /\ process_incoming_serial_data("receive_buffer", "demo")

\* line 119
application_receive_cursor ==
  /\ application.pc = "receive_cursor"
  /\ process_incoming_serial_data("receive_cursor", "demo")

\* line 122: an iteration of the loop starts with its call of
\* receive_cursor(); the rest of it (lines 123-144) follows the return of
\* the call.
application_loop ==
  /\ application.pc = "loop"
  /\ process_incoming_serial_data("receive_cursor", "demo")

\* What is written to the port at a time: four frames, one frame. The port
\* hands them on byte by byte, with the steps of the polls in between at
\* any point.
PollChunks ==
  { DocumentedLayout(ShortMessage(1)) \o DocumentedLayout(ShortMessage(2))
      \o DocumentedLayout(ShortMessage(1)) \o DocumentedLayout(ShortMessage(2)),
    DocumentedLayout(ShortMessage(3)) }

NextPoll ==
  \/ \E size \in 1..(MaxBufferSize + 1) : acquire_can_transceiver(size, TRUE)
  \/ \E bytes \in PollChunks : stdin_write(bytes)
  \/ serial_receive
  \/ serial_publish
  \/ application_receive_buffer
  \/ application_receive_cursor
  \/ application_loop
  \/ pass_byte
  \/ pass_end

SpecPoll == InitSpec /\ [][NextPoll]_vars

\* C37: a consumer that remembers the cursor of its last poll and reads
\* the slots from there up to the new cursor, wrapping at the capacity N,
\* goes over the messages pushed since that poll, which are those the
\* poll's own call of receive_cursor() pushes, once each and in push order
\* when their number k is below N; with k >= N it goes over fewer messages
\* than were pushed.
C37_CursorDeltaProtocol ==
  [][(CallReturns /\ application.pc = "loop") =>
       LET pushed == IF PassEnds THEN pass.pushed ELSE <<>>
           k == Len(pushed)
           N == m_circular_buffer.capacity
       IN /\ step'.op = "receive_cursor"
          /\ application'.previous_cursor = step'.result
          /\ k < N => application'.messages = pushed
          /\ k >= N => Len(application'.messages) < k]_vars

\* Two messages were pushed into a ring of three while the consumer stood
\* at slot 2: the poll wrapped and went over slot 2, then slot 0.
C37_Witness ==
  /\ application.pc = "loop"
  /\ step.op = "receive_cursor"
  /\ m_circular_buffer.capacity = 3
  /\ application.previous_cursor = 1
  /\ application.messages = <<ShortMessage(1), ShortMessage(2)>>
  /\ m_circular_buffer.data[2] = ShortMessage(1)
  /\ m_circular_buffer.data[0] = ShortMessage(2)

=============================================================================
